---------------------------- MODULE Spec2Model ----------------------------
(***************************************************************************)
(* Pump-motor diagnostic expert system (src/app.py): the per-domain        *)
(* classifiers, the 12-point mechanical aggregation, the bearing           *)
(* temperature adjustment, the cross-domain correlator and the Streamlit   *)
(* session that stores their results.                                      *)
(*                                                                         *)
(* Number representation.  The program computes in Python floats; the      *)
(* model computes in exact integers on fixed decimal grids:                *)
(*   temperature            degC            (integers, as the form gives)  *)
(*   overall velocity       0.1 mm/s                                       *)
(*   band energies          0.01 g                                         *)
(*   peak amplitude         0.01 mm/s                                      *)
(*   frequency              1/600 Hz  (so that rpm/60 Hz = 10*rpm exactly) *)
(* Quotients are kept as fractions [n, d] with d > 0 and compared by       *)
(* cross-multiplication; Python's int() is truncation toward zero.         *)
(* Python None is the string "None".                                       *)
(***************************************************************************)
EXTENDS Integers, Sequences, FiniteSets, TLC

VARIABLES
    fn,             \* the function under call (the button pressed, in a session)
    args,           \* its arguments (the widget values, in a session)
    ret,            \* its outcome: pending, returned (with value) or raised
    session_state,  \* st.session_state: a map whose DOMAIN is the keys present
    calls           \* the calls completed so far, in order (in a session: the
                    \* latest script run, with the session it started from)

vars == <<fn, args, ret, session_state, calls>>

None == "None"

\* dict.get(key, default)
Get(d, k, default) == IF k \in DOMAIN d THEN d[k] ELSE default

\* the empty dict {}
EmptyDict == [k \in {} |-> 0]

\* a float that is the quotient n/d, d > 0
Frac(n, d) == [n |-> n, d |-> d]
FracLt(x, k) == x.n < k * x.d          \* x < k
FracGt(x, k) == x.n > k * x.d          \* x > k
Zero == Frac(0, 1)

\* int(n/d) for d > 0: truncation toward zero
PyInt(n, d) == IF n >= 0 THEN n \div d ELSE -((-n) \div d)

Min(a, b) == IF a <= b THEN a ELSE b
Max(a, b) == IF a >= b THEN a ELSE b
Abs(a) == IF a >= 0 THEN a ELSE -a

Severities == {"Low", "Medium", "High"}
SevRank(s) == CASE s = "Low" -> 0 [] s = "Medium" -> 1 [] s = "High" -> 2

(***************************************************************************)
(* Threshold catalog                                                       *)
(***************************************************************************)
BEARING_TEMP_LIMITS ==
    [normal_max |-> 70, elevated_min |-> 70, elevated_max |-> 80,
     warning_min |-> 80, warning_max |-> 90, critical_min |-> 90,
     delta_threshold |-> 15, ambient_reference |-> 30]

\* insertion order of the bearing keys in the temperature map
BearingOrder == <<"Pump_DE", "Pump_NDE", "Motor_DE", "Motor_NDE">>
BearingLocs == {BearingOrder[i] : i \in 1..Len(BearingOrder)}

(***************************************************************************)
(* Temperature analysis                                                    *)
(***************************************************************************)
\* sensitivity variant for C10: a status that remembers that earlier calls
\* were made (a module-level cache) instead of reading only its argument
get_temperature_status_cached(temp_celsius) ==
    IF calls # <<>> THEN "Critical"
    ELSE IF temp_celsius < BEARING_TEMP_LIMITS.normal_max THEN "Normal"
    ELSE IF temp_celsius < BEARING_TEMP_LIMITS.elevated_max THEN "Elevated"
    ELSE IF temp_celsius < BEARING_TEMP_LIMITS.warning_max THEN "Warning"
    ELSE "Critical"

get_temperature_status(temp_celsius) ==
    IF temp_celsius < BEARING_TEMP_LIMITS.normal_max THEN "Normal"
    ELSE IF temp_celsius < BEARING_TEMP_LIMITS.elevated_max THEN "Elevated"
    ELSE IF temp_celsius < BEARING_TEMP_LIMITS.warning_max THEN "Warning"
    ELSE "Critical"

\* dict.get(key) used as a truth value: the key is present with a non-zero
\* reading (a key mapped to None behaves as an absent key everywhere)
Truthy(temp_dict, k) == k \in DOMAIN temp_dict /\ temp_dict[k] # 0

Note(kind, location, value) == [kind |-> kind, location |-> location, value |-> value]

\* sensitivity variant for C22: an Elevated reading penalised when inconsistent
ZoneAdjustment_penalised(temp, diagnosis_consistent) ==
    LET status == get_temperature_status(temp) IN
    IF temp = 0 THEN 0
    ELSE IF status = "Critical" THEN (IF diagnosis_consistent THEN 20 ELSE -10)
    ELSE IF status = "Warning" THEN (IF diagnosis_consistent THEN 15 ELSE -5)
    ELSE IF status = "Elevated" THEN (IF diagnosis_consistent THEN 10 ELSE -5)
    ELSE 0

\* one pass of the loop over temp_dict.items(): the score term of a reading
ZoneAdjustment(temp, diagnosis_consistent) ==
    LET status == get_temperature_status(temp) IN
    IF temp = 0 THEN 0
    ELSE IF status = "Critical" THEN (IF diagnosis_consistent THEN 20 ELSE -10)
    ELSE IF status = "Warning" THEN (IF diagnosis_consistent THEN 15 ELSE -5)
    ELSE IF status = "Elevated" THEN (IF diagnosis_consistent THEN 10 ELSE 0)
    ELSE 0

\* one pass of the loop over temp_dict.items(): the note of a reading
ZoneNotes(location, temp, diagnosis_consistent) ==
    LET status == get_temperature_status(temp) IN
    IF temp = 0 \/ status = "Normal" THEN <<>>
    ELSE <<Note(IF diagnosis_consistent THEN status \o " confirmation"
                ELSE status \o " review", location, temp)>>

RECURSIVE ZoneLoop(_, _, _)
ZoneLoop(temp_dict, diagnosis_consistent, i) ==
    IF i > Len(BearingOrder) THEN [adjustment |-> 0, notes |-> <<>>]
    ELSE LET loc == BearingOrder[i]
             rest == ZoneLoop(temp_dict, diagnosis_consistent, i + 1)
         IN IF loc \in DOMAIN temp_dict
            THEN [adjustment |-> ZoneAdjustment(temp_dict[loc], diagnosis_consistent)
                                 + rest.adjustment,
                  notes |-> ZoneNotes(loc, temp_dict[loc], diagnosis_consistent)
                            \o rest.notes]
            ELSE rest

calculate_temperature_confidence_adjustment(temp_dict, diagnosis_consistent) ==
    LET zones == ZoneLoop(temp_dict, diagnosis_consistent, 1)
        pump == Truthy(temp_dict, "Pump_DE") /\ Truthy(temp_dict, "Pump_NDE")
        delta_pump == IF pump THEN Abs(temp_dict["Pump_DE"] - temp_dict["Pump_NDE"]) ELSE 0
        pump_hit == pump /\ delta_pump > BEARING_TEMP_LIMITS.delta_threshold
        motor == Truthy(temp_dict, "Motor_DE") /\ Truthy(temp_dict, "Motor_NDE")
        delta_motor == IF motor THEN Abs(temp_dict["Motor_DE"] - temp_dict["Motor_NDE"]) ELSE 0
        motor_hit == motor /\ delta_motor > BEARING_TEMP_LIMITS.delta_threshold
        origin == /\ Truthy(temp_dict, "Motor_DE") /\ Truthy(temp_dict, "Pump_DE")
                  /\ temp_dict["Motor_DE"] > temp_dict["Pump_DE"] + 10
        adjustment == zones.adjustment + (IF pump_hit THEN 5 ELSE 0)
                                       + (IF motor_hit THEN 5 ELSE 0)
    IN [adjustment |-> Min(20, Max(-10, adjustment)),
        notes |-> zones.notes
                  \o (IF pump_hit THEN <<Note("Pump DE-NDE localized fault", "Pump", delta_pump)>> ELSE <<>>)
                  \o (IF motor_hit THEN <<Note("Motor DE-NDE localized fault", "Motor", delta_motor)>> ELSE <<>>)
                  \o (IF origin THEN <<Note("Motor DE > Pump DE", "Motor_DE", 0)>> ELSE <<>>)]


(***************************************************************************)
(* Cross-domain integration                                                *)
(***************************************************************************)
NoCorrelationLabel == "Tidak Ada Korelasi Antar Domain Terdeteksi"

\* Pattern 1: Voltage -> Mechanical -> Hydraulic
PatternA(mech_result, hyd_result, elec_result) ==
    /\ Get(elec_result, "fault_type", None) = "voltage"
    /\ Get(mech_result, "diagnosis", None) \in {"MISALIGNMENT", "LOOSENESS"}
    /\ FracLt(Get(Get(Get(hyd_result, "details", EmptyDict),
                      "deviations", EmptyDict), "head_dev", Zero), -5)

\* sensitivity variant for C29: Pattern 2 without the mechanical fault type
PatternB_any_mechanical(mech_result, hyd_result, elec_result) ==
    /\ Get(hyd_result, "fault_type", None) = "cavitation"
    /\ FracGt(Get(Get(elec_result, "details", EmptyDict), "current_unbalance", Zero), 5)

\* Pattern 2: Cavitation -> Wear -> Current
PatternB(mech_result, hyd_result, elec_result) ==
    /\ Get(hyd_result, "fault_type", None) = "cavitation"
    /\ Get(mech_result, "fault_type", None) = "wear"
    /\ FracGt(Get(Get(elec_result, "details", EmptyDict), "current_unbalance", Zero), 5)

\* Pattern 3: High Current + Low Efficiency
PatternC(mech_result, hyd_result, elec_result) ==
    /\ Get(elec_result, "diagnosis", None) = "OVER_LOAD"
    /\ Get(hyd_result, "fault_type", None) = "efficiency"

\* the label left in system_result["diagnosis"]: each firing pattern overwrites it
CorrelationLabel(mech_result, hyd_result, elec_result) ==
    IF PatternC(mech_result, hyd_result, elec_result)
        THEN "Internal Loss Investigation Required"
    ELSE IF PatternB(mech_result, hyd_result, elec_result)
        THEN "Cascading Failure: Cavitation Origin"
    ELSE IF PatternA(mech_result, hyd_result, elec_result)
        THEN "Electrical-Mechanical-Hydraulic Coupled Fault"
    ELSE NoCorrelationLabel

\* sensitivity variant for C23: the three patterns as one if/elif chain
PatternBonus_chained(mech_result, hyd_result, elec_result) ==
    IF PatternA(mech_result, hyd_result, elec_result) THEN 15
    ELSE IF PatternB(mech_result, hyd_result, elec_result) THEN 20
    ELSE IF PatternC(mech_result, hyd_result, elec_result) THEN 10
    ELSE 0

PatternBonus(mech_result, hyd_result, elec_result) ==
      (IF PatternA(mech_result, hyd_result, elec_result) THEN 15 ELSE 0)
    + (IF PatternB(mech_result, hyd_result, elec_result) THEN 20 ELSE 0)
    + (IF PatternC(mech_result, hyd_result, elec_result) THEN 10 ELSE 0)

\* sensitivity variant for C1: the `elif "Medium" in severities` branch dropped
MaxDomainSeverity_HighOnly(mech_sev, hyd_sev, elec_sev) ==
    IF "High" \in {mech_sev, hyd_sev, elec_sev} THEN "High" ELSE "Low"

\* "Severity: Ambil yang tertinggi dari 3 domain"
MaxDomainSeverity(mech_sev, hyd_sev, elec_sev) ==
    LET severities == {mech_sev, hyd_sev, elec_sev} IN
    IF "High" \in severities THEN "High"
    ELSE IF "Medium" \in severities THEN "Medium"
    ELSE "Low"

\* sensitivity variant for C13: the upgrade only when every reading is critical
CriticalTemperature_all(temp_data) ==
    \A k \in DOMAIN temp_data :
        temp_data[k] # 0 /\ temp_data[k] > BEARING_TEMP_LIMITS.critical_min

\* sensitivity variant for C25: the upgrade from the Critical floor itself
CriticalTemperature_inclusive(temp_data) ==
    \E k \in DOMAIN temp_data :
        temp_data[k] # 0 /\ temp_data[k] >= BEARING_TEMP_LIMITS.critical_min

\* "Upgrade severity if critical temperature"
CriticalTemperature(temp_data) ==
    \E k \in DOMAIN temp_data :
        temp_data[k] # 0 /\ temp_data[k] > BEARING_TEMP_LIMITS.critical_min

\* min(95, int(np.mean(nonzero confidences) + correlation_bonus))
IntegratedConfidence(c1, c2, c3, correlation_bonus) ==
    LET count == (IF c1 > 0 THEN 1 ELSE 0) + (IF c2 > 0 THEN 1 ELSE 0)
                 + (IF c3 > 0 THEN 1 ELSE 0)
        total == (IF c1 > 0 THEN c1 ELSE 0) + (IF c2 > 0 THEN c2 ELSE 0)
                 + (IF c3 > 0 THEN c3 ELSE 0)
    IN IF count = 0 THEN Min(95, correlation_bonus)
       ELSE Min(95, PyInt(total + count * correlation_bonus, count))

aggregate_cross_domain_diagnosis(mech_result, hyd_result, elec_result, shared_context, temp_data) ==
    LET mech_fault == Get(mech_result, "fault_type", None)
        mech_sev == Get(mech_result, "severity", "Low")
        hyd_sev == Get(hyd_result, "severity", "Low")
        elec_sev == Get(elec_result, "severity", "Low")
        has_temp == DOMAIN temp_data # {}
        temp == IF has_temp
                THEN calculate_temperature_confidence_adjustment(
                         temp_data, mech_fault # None /\ mech_fault # "normal")
                ELSE [adjustment |-> 0, notes |-> <<>>]
        correlation_bonus == PatternBonus(mech_result, hyd_result, elec_result)
                             + temp.adjustment
        critical == has_temp /\ CriticalTemperature(temp_data)
        correlated_faults ==
               (IF PatternA(mech_result, hyd_result, elec_result)
                THEN <<"Voltage unbalance -> torque pulsation -> hydraulic instability">> ELSE <<>>)
            \o (IF PatternB(mech_result, hyd_result, elec_result)
                THEN <<"Cavitation -> impeller erosion -> unbalance -> current fluctuation">> ELSE <<>>)
            \o (IF PatternC(mech_result, hyd_result, elec_result)
                THEN <<"High electrical input + low hydraulic output -> internal mechanical/hydraulic loss">> ELSE <<>>)
            \o (IF /\ has_temp
                   /\ Truthy(temp_data, "Pump_DE") /\ Truthy(temp_data, "Pump_NDE")
                   /\ Abs(temp_data["Pump_DE"] - temp_data["Pump_NDE"])
                        > BEARING_TEMP_LIMITS.delta_threshold
                THEN <<"Pump DE-NDE dT >15C -> Localized fault on DE bearing">> ELSE <<>>)
            \o (IF /\ has_temp
                   /\ Truthy(temp_data, "Motor_DE") /\ Truthy(temp_data, "Pump_DE")
                   /\ temp_data["Motor_DE"] > temp_data["Pump_DE"] + 10
                THEN <<"Motor DE > Pump DE -> Possible electrical origin">> ELSE <<>>)
            \o (IF critical THEN <<"Critical bearing temperature detected">> ELSE <<>>)
    IN [diagnosis |-> CorrelationLabel(mech_result, hyd_result, elec_result),
        confidence |-> IntegratedConfidence(Get(mech_result, "confidence", 0),
                                            Get(hyd_result, "confidence", 0),
                                            Get(elec_result, "confidence", 0),
                                            correlation_bonus),
        severity |-> IF critical THEN "High"
                     ELSE MaxDomainSeverity(mech_sev, hyd_sev, elec_sev),
        location |-> "N/A",
        domain_breakdown |-> [mechanical |-> mech_result, hydraulic |-> hyd_result,
                              electrical |-> elec_result],
        correlation_notes |-> IF correlated_faults # <<>> THEN correlated_faults
                              ELSE <<"Tidak ada korelasi kuat antar domain terdeteksi">>,
        temperature_notes |-> temp.notes]


(***************************************************************************)
(* Mechanical domain: the point classifier                                 *)
(***************************************************************************)
\* ISO_LIMITS_VELOCITY in 0.1 mm/s
ISO_LIMITS_VELOCITY == [ZoneA |-> 28, ZoneB |-> 45, ZoneC |-> 71, ZoneD |-> 110]
ZoneB == ISO_LIMITS_VELOCITY.ZoneB
ZoneC == ISO_LIMITS_VELOCITY.ZoneC

\* ACCEL_BASELINE in 0.01 g
ACCEL_BASELINE == [Band1 |-> 30, Band2 |-> 20, Band3 |-> 15]

\* the 12 measurement points, in the order main() builds them
Machines == <<"Pump", "Motor">>
Ends == <<"DE", "NDE">>
Directions == <<"Horizontal", "Vertical", "Axial">>
points ==
    [i \in 1..12 |-> [machine |-> Machines[((i - 1) \div 6) + 1],
                      end |-> Ends[(((i - 1) \div 3) % 2) + 1],
                      direction |-> Directions[((i - 1) % 3) + 1]]]

\* Python's `sub in point` on the name "<machine> <end> <direction>":
\* "DE" is a substring of "NDE" as well
Contains(point, sub) ==
    CASE sub \in {"Pump", "Motor"} -> point.machine = sub
      [] sub = "DE" -> point.end \in {"DE", "NDE"}
      [] sub = "NDE" -> point.end = "NDE"
      [] OTHER -> point.direction = sub

\* abs(freq - k*rpm_hz) < 0.05 * rpm_hz, with rpm_hz = rpm/60 = 10*rpm units
NearHarmonic(freq, k, rpm) == 20 * Abs(freq - k * 10 * rpm) < 10 * rpm

\* indexes of the peaks near the k-th harmonic
HarmonicIdx(peaks, k, rpm) ==
    {j \in 1..Len(peaks) : NearHarmonic(peaks[j].freq, k, rpm)}

MinOf(S) == CHOOSE x \in S : \A y \in S : x <= y

\* next((p[1] for p in peaks if near k-th harmonic), 0)
FirstAmp(peaks, k, rpm) ==
    IF HarmonicIdx(peaks, k, rpm) = {} THEN 0
    ELSE peaks[MinOf(HarmonicIdx(peaks, k, rpm))].amp

RECURSIVE SumAmp(_, _)
SumAmp(peaks, j) == IF j > Len(peaks) THEN 0 ELSE peaks[j].amp + SumAmp(peaks, j + 1)

\* severity of the spectral rules
VelocitySeverity3(overall_vel) ==
    IF overall_vel > ZoneC THEN "High"
    ELSE IF overall_vel > ZoneB THEN "Medium" ELSE "Low"
VelocitySeverity2(overall_vel) == IF overall_vel > ZoneC THEN "High" ELSE "Medium"

\* Rule predicates.  peak_1x is None (no peak near 1x) or 0 -> falsy.
UnbalanceRule(peaks, rpm, point, has_fft) ==
    /\ has_fft /\ ~Contains(point, "Axial")
    /\ FirstAmp(peaks, 1, rpm) # 0
    /\ 10 * FirstAmp(peaks, 1, rpm) > 7 * SumAmp(peaks, 1)

MisalignmentRule(peaks, rpm, point, has_fft) ==
    /\ has_fft /\ Contains(point, "Axial")
    /\ HarmonicIdx(peaks, 1, rpm) # {} /\ HarmonicIdx(peaks, 2, rpm) # {}
    /\ 2 * FirstAmp(peaks, 2, rpm) > FirstAmp(peaks, 1, rpm)

LoosenessRule(peaks, rpm, point, has_fft) ==
    /\ has_fft /\ Contains(point, "Vertical")
    /\ \A k \in 1..3 : HarmonicIdx(peaks, k, rpm) # {}
    /\ FirstAmp(peaks, 1, rpm) > 0
    /\ 2 * FirstAmp(peaks, 2, rpm) > FirstAmp(peaks, 1, rpm)
    /\ 10 * FirstAmp(peaks, 3, rpm) > 3 * FirstAmp(peaks, 1, rpm)

\* Band thresholds are products of floats: on the 0.01 g grid 1.5*0.2 =
\* 0.30000000000000004 lets b2 = 0.30 pass `b2 < 1.5*base2`, and 3*0.15 =
\* 0.44999999999999996 lets b3 = 0.45 pass `b3 > 3*base3`; the other products
\* compare as the exact numbers do.
BearingEarlyRule(bands) ==
    /\ bands.Band3 > 2 * ACCEL_BASELINE.Band3
    /\ 2 * bands.Band2 <= 3 * ACCEL_BASELINE.Band2
    /\ 2 * bands.Band1 < 3 * ACCEL_BASELINE.Band1

BearingDevelopedRule(bands) ==
    /\ bands.Band2 > 2 * ACCEL_BASELINE.Band2
    /\ 2 * bands.Band3 > 3 * ACCEL_BASELINE.Band3
    /\ 2 * bands.Band1 < 3 * ACCEL_BASELINE.Band1

\* sensitivity variant for C30: the severe rule on Band 2 alone
BearingSevereRule_band2(bands) ==
    2 * bands.Band2 > 3 * ACCEL_BASELINE.Band2

BearingSevereRule(bands) ==
    /\ 2 * bands.Band1 > 5 * ACCEL_BASELINE.Band1
    /\ 2 * bands.Band2 > 3 * ACCEL_BASELINE.Band2

\* conf_boost = 10 if has_fft else 0; +10 if bearing_temp > elevated_min
ConfBoost(has_fft, bearing_temp) ==
    (IF has_fft THEN 10 ELSE 0)
    + (IF bearing_temp # 0 /\ bearing_temp > BEARING_TEMP_LIMITS.elevated_min
       THEN 10 ELSE 0)

\* the result dict before any rule is tried; bearing_temp = 0 stands for None
\* as well: both skip every temperature test
InitialResult(bearing_temp) ==
    [diagnosis |-> "Normal", confidence |-> 0, severity |-> "Low",
     fault_type |-> None, domain |-> "mechanical",
     temperature_status |->
         IF bearing_temp > 0 THEN get_temperature_status(bearing_temp) ELSE None,
     temperature_notes |->
         IF bearing_temp > 0
         THEN <<Note("Bearing Temp", get_temperature_status(bearing_temp), bearing_temp)>>
         ELSE <<>>]

\* the `if has_fft:` block; fired = FALSE when it falls through to the bands
SpectralRules(result, peaks, rpm, point, overall_vel, has_fft) ==
    LET amp_1x == FirstAmp(peaks, 1, rpm)
        amp_2x == FirstAmp(peaks, 2, rpm)
        amp_3x == FirstAmp(peaks, 3, rpm)
    IN
    IF UnbalanceRule(peaks, rpm, point, has_fft) THEN
        [fired |-> TRUE, result |->
            [result EXCEPT !.diagnosis = "UNBALANCE",
                           !.confidence = Min(95, 70 + PyInt(10 * amp_1x, 450)),
                           !.severity = VelocitySeverity3(overall_vel),
                           !.fault_type = "low_freq"]]
    ELSE IF MisalignmentRule(peaks, rpm, point, has_fft) THEN
        [fired |-> TRUE, result |->
            [result EXCEPT !.diagnosis = "MISALIGNMENT",
                           !.confidence = IF amp_1x > 0
                                          THEN Min(95, 65 + PyInt(20 * amp_2x, amp_1x))
                                          ELSE Min(95, 65),
                           !.severity = VelocitySeverity2(overall_vel),
                           !.fault_type = "low_freq"]]
    ELSE IF LoosenessRule(peaks, rpm, point, has_fft) THEN
        [fired |-> TRUE, result |->
            [result EXCEPT !.diagnosis = "LOOSENESS",
                           !.confidence = Min(90, 60 + PyInt(15 * (amp_2x + amp_3x), amp_1x)),
                           !.severity = VelocitySeverity2(overall_vel),
                           !.fault_type = "low_freq"]]
    ELSE [fired |-> FALSE, result |-> result]

\* the band rules and the default, reached when no spectral rule returned
BandRules(result, bands, overall_vel, has_fft, bearing_temp) ==
    LET b1 == bands.Band1
        b2 == bands.Band2
        b3 == bands.Band3
        base1 == ACCEL_BASELINE.Band1
        base2 == ACCEL_BASELINE.Band2
        base3 == ACCEL_BASELINE.Band3
    IN
    IF BearingEarlyRule(bands) THEN
        [result EXCEPT !.diagnosis = "BEARING_EARLY",
                       !.confidence = Min(85, 60 + PyInt(10 * (b3 - 2 * base3), base3)
                                              + ConfBoost(has_fft, bearing_temp)),
                       \* b3 > 3*base3 with the float product just below 0.45
                       !.severity = IF b3 >= 3 * base3 THEN "Medium" ELSE "Low",
                       !.fault_type = "high_freq"]
    ELSE IF BearingDevelopedRule(bands) THEN
        [result EXCEPT !.diagnosis = "BEARING_DEVELOPED",
                       !.confidence = Min(90, 70 + PyInt(8 * (b2 - 2 * base2), base2)
                                              + ConfBoost(has_fft, bearing_temp)),
                       !.severity = IF b2 > 3 * base2 THEN "High" ELSE "Medium",
                       !.fault_type = "high_freq"]
    ELSE IF BearingSevereRule(bands) THEN
        [result EXCEPT !.diagnosis = "BEARING_SEVERE",
                       !.confidence = Min(95, 80 + PyInt(6 * (2 * b1 - 5 * base1), 2 * base1)),
                       !.severity = "High",
                       !.fault_type = "high_freq"]
    ELSE IF overall_vel <= ZoneB THEN
        [result EXCEPT !.diagnosis = "Normal", !.confidence = 99, !.severity = "Low"]
    ELSE
        [result EXCEPT !.diagnosis = "Tidak Terdiagnosa",
                       !.confidence = IF ~has_fft THEN 30 ELSE 40,
                       !.severity = "Medium"]

\* the spectral block's result if it returned, else the band rules'
FirstMatch(spectral, result, bands, overall_vel, has_fft, bearing_temp) ==
    IF spectral.fired THEN spectral.result
    ELSE BandRules(result, bands, overall_vel, has_fft, bearing_temp)

\* sensitivity variant for C17: the band rules tried before the spectral rules
diagnose_single_point_mechanical_bands_first(peaks, bands, rpm, point, overall_vel, has_fft, bearing_temp) ==
    IF BearingEarlyRule(bands) \/ BearingDevelopedRule(bands) \/ BearingSevereRule(bands)
    THEN BandRules(InitialResult(bearing_temp), bands, overall_vel, has_fft, bearing_temp)
    ELSE FirstMatch(SpectralRules(InitialResult(bearing_temp), peaks, rpm, point,
                                  overall_vel, has_fft),
                    InitialResult(bearing_temp), bands, overall_vel, has_fft, bearing_temp)

diagnose_single_point_mechanical(peaks, bands, rpm, point, overall_vel, has_fft, bearing_temp) ==
    FirstMatch(SpectralRules(InitialResult(bearing_temp), peaks, rpm, point,
                             overall_vel, has_fft),
               InitialResult(bearing_temp), bands, overall_vel, has_fft, bearing_temp)


(***************************************************************************)
(* Hydraulic domain                                                        *)
(*   pressures 0.1 bar, flow m3/h, motor power 0.1 kW, SG 0.01,            *)
(*   design head 0.1 m, NPSH required 0.1 m, vapor pressure 0.1 kPa.       *)
(* Fractions are reduced to lowest terms to keep the integers small.       *)
(***************************************************************************)
RECURSIVE GCD(_, _)
GCD(a, b) == IF b = 0 THEN a ELSE GCD(b, a % b)

\* the float n/d (d > 0), in lowest terms
Quot(n, d) == LET g == GCD(Abs(n), d) IN Frac(n \div g, d \div g)

FracAbsLe(x, k) == Abs(x.n) <= k * x.d     \* abs(x) <= k
FracPos(x) == x.n > 0

FLUID_PROPERTIES ==
    [Pertalite |-> [sg |-> 73, vapor_pressure_kpa_38C |-> 520],
     Pertamax  |-> [sg |-> 74, vapor_pressure_kpa_38C |-> 420],
     Diesel    |-> [sg |-> 84, vapor_pressure_kpa_38C |-> 5]]

calculate_hydraulic_parameters(suction_pressure, discharge_pressure, flow_rate, motor_power, sg) ==
    LET delta_p == discharge_pressure - suction_pressure
        \* delta_p * 10.2 / sg
        head == IF sg > 0 THEN Quot(102 * delta_p, sg) ELSE Zero
        \* flow * head * sg * 9.81 / 3600: sg cancels against the head's divisor
        hydraulic_power == IF flow_rate > 0 /\ FracPos(head)
                           THEN Quot(flow_rate * delta_p * 16677, 6000000) ELSE Zero
        \* hydraulic_power / motor_power * 100
        efficiency == IF motor_power > 0 /\ FracPos(hydraulic_power)
                      THEN Quot(flow_rate * delta_p * 16677, 6000 * motor_power)
                      ELSE Zero
    IN [delta_p_bar |-> delta_p, head_m |-> head,
        hydraulic_power_kw |-> hydraulic_power, efficiency_percent |-> efficiency]

\* sensitivity variant for C12: the deviation as a fraction instead of a percentage
Deviation_fraction(aktual, design_n, design_d) ==
    Quot(aktual.n * design_d - design_n * aktual.d, design_n * aktual.d)

\* (aktual - design) / design * 100 with design = design_n / design_d > 0
Deviation(aktual, design_n, design_d) ==
    LET num == aktual.n * design_d - design_n * aktual.d
        den == design_n * aktual.d
        g == GCD(100, den)
    IN Quot((100 \div g) * num, den \div g)

classify_hydraulic_performance(head_aktual, head_design, efficiency_aktual, efficiency_bep, flow_aktual, flow_design) ==
    LET dev_head == IF head_design > 0 THEN Deviation(head_aktual, head_design, 10) ELSE Zero
        dev_eff == IF efficiency_bep > 0
                   THEN Deviation(efficiency_aktual, efficiency_bep, 1) ELSE Zero
        dev_flow == IF flow_design > 0
                    THEN Deviation(Frac(flow_aktual, 1), flow_design, 1) ELSE Zero
    IN
    IF FracLt(dev_head, -5) /\ FracLt(dev_eff, -5) THEN
        [pattern |-> "UNDER_PERFORMANCE",
         deviations |-> [head_dev |-> dev_head, eff_dev |-> dev_eff]]
    ELSE IF FracGt(dev_head, 5) /\ FracLt(dev_flow, -5) THEN
        [pattern |-> "OVER_RESISTANCE",
         deviations |-> [head_dev |-> dev_head, flow_dev |-> dev_flow]]
    ELSE IF FracLt(dev_eff, -10) /\ FracAbsLe(dev_head, 5) THEN
        [pattern |-> "EFFICIENCY_DROP", deviations |-> [eff_dev |-> dev_eff]]
    ELSE IF FracAbsLe(dev_head, 5) /\ FracAbsLe(dev_eff, 5) /\ FracAbsLe(dev_flow, 5) THEN
        [pattern |-> "NORMAL",
         deviations |-> [head_dev |-> dev_head, eff_dev |-> dev_eff, flow_dev |-> dev_flow]]
    ELSE
        [pattern |-> "MIXED_DEVIATION",
         deviations |-> [head_dev |-> dev_head, eff_dev |-> dev_eff, flow_dev |-> dev_flow]]

\* npsha_estimated - npshr, with
\* npsha = ((suction + 1.013) * 100 - vapor_pressure) / (sg * 9.81)
NpshMargin(suction_pressure_bar, vapor_pressure_kpa, sg, npshr) ==
    IF sg > 0
    THEN Quot(10000 * (100 * suction_pressure_bar + 1013 - vapor_pressure_kpa)
                  - 981 * sg * npshr, 9810 * sg)
    ELSE Quot(-npshr, 10)

\* sensitivity variant for C3: the cavitation confidence without its min(90, ...)
CavitationConfidence_unclamped(npsh_margin) ==
    70 + PyInt(10 * npsh_margin.d - 20 * npsh_margin.n, npsh_margin.d)

\* min(90, 70 + int((0.5 - npsh_margin) * 20))
CavitationConfidence(npsh_margin) ==
    Min(90, 70 + PyInt(10 * npsh_margin.d - 20 * npsh_margin.n, npsh_margin.d))

\* the CAVITATION result for a margin below 0.5 m
CavitationResult(result, npsh_margin) ==
    [result EXCEPT !.diagnosis = "CAVITATION",
                   !.confidence = CavitationConfidence(npsh_margin),
                   \* npsh_margin < 0.3
                   !.severity = IF 10 * npsh_margin.n < 3 * npsh_margin.d
                                THEN "High" ELSE "Medium",
                   !.fault_type = "cavitation"]

\* the rules on the deviation pattern, tried after the cavitation rule
PatternRules(result, pattern, deviations, noise_type, fluid_condition) ==
    LET head_dev == Get(deviations, "head_dev", Zero)
        eff_dev == Get(deviations, "eff_dev", Zero)
    IN
    IF /\ pattern = "UNDER_PERFORMANCE" /\ noise_type = "Normal"
       /\ fluid_condition \in {"Jernih", "Agak keruh"} THEN
        [result EXCEPT !.diagnosis = "IMPELLER_WEAR",
                       !.confidence = Min(85, 60 + PyInt(2 * Abs(head_dev.n), head_dev.d)),
                       !.severity = IF FracLt(head_dev, -15) THEN "High" ELSE "Medium",
                       !.fault_type = "wear"]
    ELSE IF pattern = "OVER_RESISTANCE" THEN
        [result EXCEPT !.diagnosis = "SYSTEM_RESISTANCE_HIGH", !.confidence = 75,
                       !.severity = "Medium", !.fault_type = "system"]
    ELSE IF pattern = "EFFICIENCY_DROP" THEN
        [result EXCEPT !.diagnosis = "EFFICIENCY_DROP",
                       !.confidence = Min(80, 65 + PyInt(Abs(eff_dev.n), eff_dev.d)),
                       !.severity = IF FracLt(eff_dev, -20) THEN "High" ELSE "Medium",
                       !.fault_type = "efficiency"]
    ELSE IF pattern = "NORMAL" THEN
        [result EXCEPT !.diagnosis = "NORMAL_OPERATION", !.confidence = 95,
                       !.severity = "Low", !.fault_type = "normal"]
    ELSE
        [result EXCEPT !.diagnosis = "Tidak Terdiagnosa", !.confidence = 40,
                       !.severity = "Medium", !.fault_type = "unknown"]

\* sensitivity variant for C21: the pattern rules tried before the cavitation rule
HydraulicVerdict_pattern_first(result, perf, npsh_margin, noise_type, fluid_condition) ==
    IF perf.pattern \in {"OVER_RESISTANCE", "EFFICIENCY_DROP", "NORMAL"}
       \/ ~(noise_type = "Crackling" /\ 2 * npsh_margin.n < npsh_margin.d)
    THEN PatternRules(result, perf.pattern, perf.deviations, noise_type, fluid_condition)
    ELSE CavitationResult(result, npsh_margin)

\* the chain of early returns: the cavitation rule, then the pattern rules
HydraulicVerdict(result, perf, npsh_margin, noise_type, fluid_condition) ==
    \* npsh_margin < 0.5
    IF noise_type = "Crackling" /\ 2 * npsh_margin.n < npsh_margin.d
    THEN CavitationResult(result, npsh_margin)
    ELSE PatternRules(result, perf.pattern, perf.deviations, noise_type, fluid_condition)

\* the result dict with the details both recorded before any rule is tried
HydraulicInitial(perf, npsh_margin) ==
    [diagnosis |-> "NORMAL_OPERATION", confidence |-> 0,
     severity |-> "Low", fault_type |-> None, domain |-> "hydraulic",
     details |-> [deviations |-> perf.deviations, npsh_margin_m |-> npsh_margin]]

\* the verdict for a classified pattern and a computed margin
HydraulicDecision(perf, npsh_margin, observations) ==
    HydraulicVerdict(HydraulicInitial(perf, npsh_margin), perf, npsh_margin,
                     Get(observations, "noise_type", "Normal"),
                     Get(observations, "fluid_condition", "Jernih"))

diagnose_hydraulic_single_point(hydraulic_calc, design_params, fluid_props, observations, context) ==
    HydraulicDecision(
        classify_hydraulic_performance(
            Get(hydraulic_calc, "head_m", Zero), Get(design_params, "rated_head_m", 0),
            Get(hydraulic_calc, "efficiency_percent", Zero),
            Get(design_params, "bep_efficiency", 0),
            Get(context, "flow_aktual", 0), Get(design_params, "rated_flow_m3h", 0)),
        NpshMargin(Get(context, "suction_pressure_bar", 0),
                   Get(fluid_props, "vapor_pressure_kpa_38C", 0),
                   Get(fluid_props, "sg", 84),
                   Get(design_params, "npsh_required_m", 0)),
        observations)


(***************************************************************************)
(* Electrical domain: voltages V, currents 0.1 A, FLA in A                 *)
(***************************************************************************)
ELECTRICAL_LIMITS ==
    [voltage_unbalance_warning |-> 1, voltage_unbalance_critical |-> 2,
     current_unbalance_warning |-> 5, current_unbalance_critical |-> 8,
     voltage_tolerance_low |-> 90, voltage_tolerance_high |-> 110,
     current_load_warning |-> 90, current_load_critical |-> 100]

Max3(a, b, c) == Max(a, Max(b, c))

\* A division by a zero rated voltage raises ZeroDivisionError: the outcome
\* is [raised |-> TRUE]; otherwise [raised |-> FALSE, value |-> the dict].
calculate_electrical_parameters(v_l1l2, v_l2l3, v_l3l1, i_l1, i_l2, i_l3, rated_voltage, fla) ==
    LET v_sum == v_l1l2 + v_l2l3 + v_l3l1
        i_sum == i_l1 + i_l2 + i_l3
        \* max(|v - v_avg|) / v_avg * 100, numerator and divisor times 3
        v_dev == Max3(Abs(3 * v_l1l2 - v_sum), Abs(3 * v_l2l3 - v_sum),
                      Abs(3 * v_l3l1 - v_sum))
        i_dev == Max3(Abs(3 * i_l1 - i_sum), Abs(3 * i_l2 - i_sum),
                      Abs(3 * i_l3 - i_sum))
        voltage_unbalance == IF v_sum > 0 THEN Quot(100 * v_dev, v_sum) ELSE Zero
        current_unbalance == IF i_sum > 0 THEN Quot(100 * i_dev, i_sum) ELSE Zero
        \* i_avg / fla * 100, i_avg = i_sum / 30 A
        load_estimate == IF fla > 0 THEN Quot(10 * i_sum, 3 * fla) ELSE Zero
        \* low <= v_avg / rated_voltage * 100 <= high.  At v_avg = 1.1 * rated
        \* the float quotient is 110.00000000000001 (every rated voltage the
        \* form offers), so the upper comparison is strict on the model's grid.
        voltage_within_tolerance ==
            /\ ELECTRICAL_LIMITS.voltage_tolerance_low * 3 * rated_voltage <= 100 * v_sum
            /\ 100 * v_sum < ELECTRICAL_LIMITS.voltage_tolerance_high * 3 * rated_voltage
    IN IF rated_voltage = 0 THEN [raised |-> TRUE]
       ELSE [raised |-> FALSE,
             value |-> [v_avg |-> Quot(v_sum, 3), i_avg |-> Quot(i_sum, 30),
                        voltage_unbalance_percent |-> voltage_unbalance,
                        current_unbalance_percent |-> current_unbalance,
                        load_estimate_percent |-> load_estimate,
                        voltage_within_tolerance |-> voltage_within_tolerance]]

diagnose_electrical_condition(electrical_calc, motor_specs) ==
    LET voltage_unbalance == Get(electrical_calc, "voltage_unbalance_percent", Zero)
        current_unbalance == Get(electrical_calc, "current_unbalance_percent", Zero)
        load_estimate == Get(electrical_calc, "load_estimate_percent", Zero)
        voltage_within_tolerance == Get(electrical_calc, "voltage_within_tolerance", TRUE)
        v_avg == Get(electrical_calc, "v_avg", Zero)
        rated_voltage == Get(motor_specs, "rated_voltage", 400)
        details == [voltage_unbalance |-> voltage_unbalance,
                    current_unbalance |-> current_unbalance,
                    load_estimate |-> load_estimate]
        result == [diagnosis |-> "NORMAL_ELECTRICAL", confidence |-> 0,
                   severity |-> "Low", fault_type |-> None, domain |-> "electrical",
                   details |-> details]
    IN
    IF ~voltage_within_tolerance THEN
        \* v_avg < rated_voltage * 0.9
        IF 10 * v_avg.n < 9 * rated_voltage * v_avg.d THEN
            [result EXCEPT !.diagnosis = "UNDER_VOLTAGE", !.confidence = 70,
                           !.severity = IF FracGt(load_estimate, 80) THEN "High" ELSE "Medium",
                           !.fault_type = "voltage"]
        \* v_avg > rated_voltage * 1.1
        ELSE IF 10 * v_avg.n > 11 * rated_voltage * v_avg.d THEN
            [result EXCEPT !.diagnosis = "OVER_VOLTAGE", !.confidence = 70,
                           !.severity = "Medium", !.fault_type = "voltage"]
        ELSE result
    ELSE IF FracGt(voltage_unbalance, ELECTRICAL_LIMITS.voltage_unbalance_critical) THEN
        [result EXCEPT !.diagnosis = "VOLTAGE_UNBALANCE", !.confidence = 75,
                       !.severity = "High", !.fault_type = "voltage"]
    ELSE IF FracGt(voltage_unbalance, ELECTRICAL_LIMITS.voltage_unbalance_warning) THEN
        [result EXCEPT !.diagnosis = "VOLTAGE_UNBALANCE", !.confidence = 65,
                       !.severity = "Medium", !.fault_type = "voltage"]
    ELSE IF FracGt(current_unbalance, ELECTRICAL_LIMITS.current_unbalance_critical) THEN
        [result EXCEPT !.diagnosis = "CURRENT_UNBALANCE", !.confidence = 70,
                       !.severity = "High", !.fault_type = "current"]
    ELSE IF FracGt(current_unbalance, ELECTRICAL_LIMITS.current_unbalance_warning) THEN
        [result EXCEPT !.diagnosis = "CURRENT_UNBALANCE", !.confidence = 60,
                       !.severity = "Medium", !.fault_type = "current"]
    ELSE IF FracGt(load_estimate, ELECTRICAL_LIMITS.current_load_critical) THEN
        [result EXCEPT !.diagnosis = "OVER_LOAD", !.confidence = 55,
                       !.severity = "Medium", !.fault_type = "load"]
    ELSE IF FracLt(load_estimate, 50) THEN
        [result EXCEPT !.diagnosis = "UNDER_LOAD", !.confidence = 50,
                       !.severity = "Low", !.fault_type = "load"]
    ELSE
        [result EXCEPT !.diagnosis = "NORMAL_ELECTRICAL", !.confidence = 95,
                       !.severity = "Low", !.fault_type = "normal"]


(***************************************************************************)
(* Mechanical tab: the 12-point loop and the system aggregation            *)
(*                                                                         *)
(* A form state is [fft_mode, rpm, temp_data, input_data, bands_inputs,    *)
(* fft_form]: input_data, bands_inputs and fft_form map the point index    *)
(* 1..12 to the overall velocity, the bands and the three peaks the form   *)
(* holds for that point.                                                   *)
(***************************************************************************)
Peak(freq, amp) == [freq |-> freq, amp |-> amp]

\* fft_inputs.get(point, ...) default: [(rpm_hz,0.1),(2*rpm_hz,0.05),(3*rpm_hz,0.02)]
NoFftPeaks(rpm) == <<Peak(10 * rpm, 10), Peak(20 * rpm, 5), Peak(30 * rpm, 2)>>

\* the peak widgets' defaults: frequency rpm_hz*i for i <= 2, rpm_hz for i = 3,
\* amplitude 1.0
FormDefaultPeaks(rpm) == <<Peak(10 * rpm, 100), Peak(20 * rpm, 100), Peak(10 * rpm, 100)>>

\* the points that get FFT inputs
Targets(form) ==
    IF form.fft_mode = "Lengkap" THEN 1..12
    ELSE {i \in 1..12 : \/ form.input_data[i] > ZoneB
                        \/ form.bands_inputs[i].Band3 > 2 * ACCEL_BASELINE.Band3}

fft_inputs(form) == [i \in Targets(form) |-> form.fft_form[i]]

\* the if/elif chain choosing the bearing temperature of a point; the first
\* test holds for NDE points too because "DE" is a substring of "NDE"
BearingTempOf(point, temp_data) ==
    IF Contains(point, "Pump") /\ Contains(point, "DE") THEN Get(temp_data, "Pump_DE", 0)
    ELSE IF Contains(point, "Pump") /\ Contains(point, "NDE") THEN Get(temp_data, "Pump_NDE", 0)
    ELSE IF Contains(point, "Motor") /\ Contains(point, "DE") THEN Get(temp_data, "Motor_DE", 0)
    ELSE IF Contains(point, "Motor") /\ Contains(point, "NDE") THEN Get(temp_data, "Motor_NDE", 0)
    ELSE 0

\* one pass of `for point in points`: the classifier's call and what it returns
ClassifiedPoint(form, i) ==
    LET has_fft == i \in DOMAIN fft_inputs(form)
        peaks == IF has_fft THEN fft_inputs(form)[i] ELSE NoFftPeaks(form.rpm)
    IN diagnose_single_point_mechanical(
           peaks, form.bands_inputs[i], form.rpm, points[i],
           form.input_data[i], has_fft, BearingTempOf(points[i], form.temp_data))

\* result["point"] = point; result["location_hint"] = ...: the loop writes two
\* more keys into the dict the classifier returned
Tagged(result, i) ==
    [k \in DOMAIN result \cup {"point", "location_hint"} |->
        IF k = "point" THEN i
        ELSE IF k = "location_hint" THEN <<points[i].machine, points[i].end>>
        ELSE result[k]]

\* the entry of point_results for point i
PointResult(form, i) == Tagged(ClassifiedPoint(form, i), i)

point_results(form) == [i \in 1..12 |-> PointResult(form, i)]

\* indexes of the results of a given severity, in list order
WithSeverity(results, sev) == {i \in DOMAIN results : results[i].severity = sev}

\* max(high_sev_results, key=confidence): the first of the most confident
WorstIdx(results) ==
    LET high == WithSeverity(results, "High") IN
    MinOf({i \in high : \A j \in high : results[j].confidence <= results[i].confidence})

RECURSIVE SumConfidence(_, _)
SumConfidence(results, S) ==
    IF S = {} THEN 0
    ELSE LET i == MinOf(S) IN results[i].confidence + SumConfidence(results, S \ {i})

\* the index of the point result copied into the system verdict; 0 when the
\* verdict stays the initial Normal dict
DominantIdx(results) ==
    IF WithSeverity(results, "High") # {} THEN WorstIdx(results)
    ELSE IF WithSeverity(results, "Medium") # {} THEN MinOf(WithSeverity(results, "Medium"))
    ELSE 0

\* sensitivity variant for C9: the Medium confidences summed, not averaged
avg_conf_sum(results) ==
    SumConfidence(results, WithSeverity(results, "Medium"))

\* avg_conf = int(np.mean([r["confidence"] for r in med_results]))
avg_conf(results) ==
    LET med == WithSeverity(results, "Medium")
    IN PyInt(SumConfidence(results, med), Cardinality(med))

mech_system(results) ==
    LET initial == [diagnosis |-> "Normal", confidence |-> 99, severity |-> "Low",
                    fault_type |-> "normal", domain |-> "mechanical"]
        med == WithSeverity(results, "Medium")
    IN
    IF WithSeverity(results, "High") # {} THEN
        LET worst == results[WorstIdx(results)] IN
        [initial EXCEPT !.diagnosis = worst.diagnosis, !.confidence = worst.confidence,
                        !.severity = "High", !.fault_type = worst.fault_type]
    ELSE IF med # {} THEN
        [initial EXCEPT !.diagnosis = results[MinOf(med)].diagnosis,
                        !.confidence = avg_conf(results),
                        !.severity = "Medium",
                        !.fault_type = results[MinOf(med)].fault_type]
    ELSE initial


(***************************************************************************)
(* Inputs of the checked calls                                             *)
(***************************************************************************)
\* how many points of a form may differ from the form's defaults
MaxAbnormal == 3

\* the form's default operating speed
Rpm == 2950

\* spectra (frequency in 1/600 Hz, amplitude in 0.01 mm/s)
SpecExample2 == <<Peak(29502, 400), Peak(58980, 50), Peak(88440, 20)>>
SpecUnbalanceHigh == <<Peak(10 * Rpm, 1200), Peak(20 * Rpm, 50), Peak(30 * Rpm, 20)>>
SpecLooseness == <<Peak(10 * Rpm, 100), Peak(20 * Rpm, 80), Peak(30 * Rpm, 50)>>
SpecZero1x == <<Peak(10 * Rpm, 0), Peak(20 * Rpm, 50), Peak(30 * Rpm, 20)>>
SpecOffHarmonic == <<Peak(7 * Rpm, 300), Peak(13 * Rpm, 100), Peak(27 * Rpm, 100)>>
Spectra == {NoFftPeaks(Rpm), FormDefaultPeaks(Rpm), SpecExample2, SpecUnbalanceHigh,
            SpecLooseness, SpecZero1x, SpecOffHarmonic}

Bands(b1, b2, b3) == [Band1 |-> b1, Band2 |-> b2, Band3 |-> b3]
DefaultBands == Bands(20, 15, 10)
BandSets == {DefaultBands, Bands(20, 15, 35), Bands(20, 30, 45), Bands(20, 15, 200),
             Bands(20, 50, 30), Bands(20, 65, 30), Bands(20, 200, 30),
             Bands(100, 40, 10), Bands(300, 40, 10), Bands(50, 35, 40)}

\* Pump DE Horizontal at 1780 rpm with peaks (29.67, 4.0), (59.3, 0.5),
\* (88.9, 0.2) and overall velocity 6.0 mm/s
UnbalanceExample ==
    [peaks |-> <<Peak(17802, 400), Peak(35580, 50), Peak(53340, 20)>>,
     bands |-> DefaultBands, rpm |-> 1780, point |-> points[1],
     overall_vel |-> 60, has_fft |-> TRUE, bearing_temp |-> 0]

PointArgs ==
    [peaks : Spectra, bands : BandSets, rpm : {Rpm},
     point : {points[1], points[2], points[3]},
     overall_vel : {10, 45, 46, 71, 72}, has_fft : BOOLEAN,
     bearing_temp : {0, 65, 75}]
    \cup {UnbalanceExample}

\* the form of a mechanical run: every point at the form defaults except the
\* points of `assign`, which take a profile
Profile(vel, bands, peaks) == [vel |-> vel, bands |-> bands, peaks |-> peaks]
Profiles ==
    <<Profile(50, DefaultBands, FormDefaultPeaks(Rpm)),
      Profile(60, DefaultBands, SpecExample2),
      Profile(80, DefaultBands, SpecUnbalanceHigh),
      Profile(10, DefaultBands, SpecExample2),
      Profile(60, DefaultBands, SpecLooseness),
      Profile(10, Bands(20, 15, 35), SpecOffHarmonic),
      Profile(10, Bands(20, 50, 30), FormDefaultPeaks(Rpm)),
      Profile(10, Bands(100, 40, 10), FormDefaultPeaks(Rpm))>>
AbnormalPositions == {1, 2, 3, 4, 8}
Assignments ==
    UNION {[S -> 1..Len(Profiles)] :
              S \in {T \in SUBSET AbnormalPositions : Cardinality(T) <= MaxAbnormal}}

DefaultTemps == [Pump_DE |-> 65, Pump_NDE |-> 63, Motor_DE |-> 68, Motor_NDE |-> 66]

Form(fft_mode, temp_data, assign) ==
    [fft_mode |-> fft_mode, rpm |-> Rpm, temp_data |-> temp_data,
     input_data |-> [i \in 1..12 |->
         IF i \in DOMAIN assign THEN Profiles[assign[i]].vel ELSE 10],
     bands_inputs |-> [i \in 1..12 |->
         IF i \in DOMAIN assign THEN Profiles[assign[i]].bands ELSE DefaultBands],
     fft_form |-> [i \in 1..12 |->
         IF i \in DOMAIN assign THEN Profiles[assign[i]].peaks ELSE FormDefaultPeaks(Rpm)]]

MechanicalForms ==
    {Form(m, t, a) : m \in {"Efisien", "Lengkap"},
                     t \in {DefaultTemps, [DefaultTemps EXCEPT !.Pump_DE = 96]},
                     a \in Assignments}

DesignSets ==
    {[rated_flow_m3h |-> 120, rated_head_m |-> 850, bep_efficiency |-> 78],
     [rated_flow_m3h |-> 0, rated_head_m |-> 0, bep_efficiency |-> 0],
     [rated_flow_m3h |-> 0, rated_head_m |-> 850, bep_efficiency |-> 78],
     [rated_flow_m3h |-> 120, rated_head_m |-> 0, bep_efficiency |-> 78],
     [rated_flow_m3h |-> 120, rated_head_m |-> 850, bep_efficiency |-> 0]}

HydraulicArgs ==
    [suction_pressure : {0, 12}, discharge_pressure : {5, 60, 85, 100},
     flow_rate : {0, 100}, motor_power : {0, 260, 450}, sg : {0, 84},
     fluid_props : {FLUID_PROPERTIES.Pertalite, FLUID_PROPERTIES.Diesel,
                    [sg |-> 0, vapor_pressure_kpa_38C |-> 5]},
     design : DesignSets, npsh_required : {42, 65, 80},
     noise_type : {"Normal", "Crackling"},
     fluid_condition : {"Jernih", "Keruh/partikel"}]

Volts == {<<400, 402, 398>>, <<350, 350, 350>>, <<440, 440, 440>>, <<450, 450, 450>>,
          <<400, 410, 390>>, <<400, 406, 394>>, <<0, 0, 0>>}
Amps == {<<820, 840, 830>>, <<820, 920, 750>>, <<830, 880, 780>>, <<900, 900, 900>>,
         <<300, 300, 300>>, <<0, 0, 0>>}
ElectricalArgs == [v : Volts, i : Amps, rated_voltage : {0, 400}, fla : {0, 85}]

(***************************************************************************)
(* Calls: the state is the function called, its arguments and its outcome  *)
(***************************************************************************)
Pending == [status |-> "pending"]
Returned(v) == [status |-> "returned", value |-> v]
Raised == [status |-> "raised"]

\* the hydraulic tab's button handler: parameters, then the classifier
HydraulicAnalysis(a) ==
    diagnose_hydraulic_single_point(
        calculate_hydraulic_parameters(a.suction_pressure, a.discharge_pressure,
                                       a.flow_rate, a.motor_power, a.sg),
        [k \in DOMAIN a.design \cup {"npsh_required_m"} |->
            IF k = "npsh_required_m" THEN a.npsh_required ELSE a.design[k]],
        a.fluid_props,
        [fluid_condition |-> a.fluid_condition, noise_type |-> a.noise_type],
        [flow_aktual |-> a.flow_rate, suction_pressure_bar |-> a.suction_pressure])

\* the electrical tab: parameters (which may raise), then the classifier
ElectricalAnalysis(a) ==
    LET calc == calculate_electrical_parameters(a.v[1], a.v[2], a.v[3],
                                                a.i[1], a.i[2], a.i[3],
                                                a.rated_voltage, a.fla)
    IN IF calc.raised THEN Raised
       ELSE Returned(diagnose_electrical_condition(
                calc.value, [rated_voltage |-> a.rated_voltage, fla |-> a.fla]))

\* the point results together with the verdict computed from them
WithVerdict(results) == [point_results |-> results, mech_system |-> mech_system(results)]

\* the mechanical tab's button handler
MechanicalAnalysis(form) == WithVerdict(point_results(form))

InitClassify ==
    /\ \/ fn = "diagnose_single_point_mechanical" /\ args \in PointArgs
       \/ fn = "diagnose_hydraulic_single_point" /\ args \in HydraulicArgs
       \/ fn = "diagnose_electrical_condition" /\ args \in ElectricalArgs
       \/ fn = "mechanical_analysis" /\ args \in MechanicalForms
    /\ ret = Pending
    /\ session_state = EmptyDict
    /\ calls = <<>>

CallPoint ==
    /\ fn = "diagnose_single_point_mechanical" /\ ret = Pending
    /\ ret' = Returned(diagnose_single_point_mechanical(
                  args.peaks, args.bands, args.rpm, args.point, args.overall_vel,
                  args.has_fft, args.bearing_temp))
    /\ UNCHANGED <<fn, args, session_state, calls>>

CallHydraulic ==
    /\ fn = "diagnose_hydraulic_single_point" /\ ret = Pending
    /\ ret' = Returned(HydraulicAnalysis(args))
    /\ UNCHANGED <<fn, args, session_state, calls>>

CallElectrical ==
    /\ fn = "diagnose_electrical_condition" /\ ret = Pending
    /\ ret' = ElectricalAnalysis(args)
    /\ UNCHANGED <<fn, args, session_state, calls>>

CallMechanical ==
    /\ fn = "mechanical_analysis" /\ ret = Pending
    /\ ret' = Returned(MechanicalAnalysis(args))
    /\ UNCHANGED <<fn, args, session_state, calls>>

NextClassify == CallPoint \/ CallHydraulic \/ CallElectrical \/ CallMechanical

SpecClassify == InitClassify /\ [][NextClassify]_vars


(***************************************************************************)
(* Calls of the point classifier over a grid of acceleration bands         *)
(* (steps of 0.01 g), without FFT peaks and at a Zone A velocity           *)
(***************************************************************************)
MaxBand1 == 80
MaxBand2 == 45
MaxBand3 == 35

BandArgs ==
    [peaks : {NoFftPeaks(Rpm)},
     bands : [Band1 : 0..MaxBand1, Band2 : 0..MaxBand2, Band3 : 0..MaxBand3],
     rpm : {Rpm}, point : {points[1]}, overall_vel : {10}, has_fft : {FALSE},
     bearing_temp : {0}]

InitBands ==
    /\ fn = "diagnose_single_point_mechanical" /\ args \in BandArgs
    /\ ret = Pending
    /\ session_state = EmptyDict
    /\ calls = <<>>

NextBands == CallPoint

SpecBands == InitBands /\ [][NextBands]_vars


(***************************************************************************)
(* Calls of the correlator                                                 *)
(***************************************************************************)
\* st.session_state.shared_context as main() first stores it (the timestamp,
\* which no analysis reads, is left out)
DefaultContext(fluid_type) ==
    [machine_id |-> "P-101", rpm |-> Rpm,
     service_criticality |-> "Essential (Utility)", fluid_type |-> fluid_type]

\* (severity, confidence) of the sampled DomainResults
SevConf == {<<"Low", 0>>, <<"Low", 99>>, <<"Medium", 0>>, <<"Medium", 40>>, <<"High", 7>>}

MechKinds == {<<"Normal", "normal">>, <<"MISALIGNMENT", "low_freq">>,
              <<"IMPELLER_WEAR", "wear">>, <<"Tidak Terdiagnosa", None>>,
              <<"MISALIGNMENT", "wear">>}
MechResults ==
    {[diagnosis |-> k[1], confidence |-> sc[2], severity |-> sc[1],
      fault_type |-> k[2], domain |-> "mechanical"] : k \in MechKinds, sc \in SevConf}

\* (diagnosis, fault_type, head deviation in percent)
HydKinds == {<<"NORMAL_OPERATION", "normal", 0>>, <<"CAVITATION", "cavitation", -8>>,
             <<"EFFICIENCY_DROP", "efficiency", 0>>, <<"EFFICIENCY_DROP", "efficiency", -8>>}
HydResults ==
    {[diagnosis |-> k[1], confidence |-> sc[2], severity |-> sc[1],
      fault_type |-> k[2], domain |-> "hydraulic",
      details |-> [deviations |-> [head_dev |-> Frac(k[3], 1)], npsh_margin_m |-> Zero]]
        : k \in HydKinds, sc \in SevConf}

\* (diagnosis, fault_type, current unbalance in percent)
ElecKinds == {<<"NORMAL_ELECTRICAL", "normal", 0>>, <<"VOLTAGE_UNBALANCE", "voltage", 6>>,
              <<"OVER_LOAD", "load", 0>>, <<"OVER_LOAD", "voltage", 6>>}
ElecResults ==
    {[diagnosis |-> k[1], confidence |-> sc[2], severity |-> sc[1],
      fault_type |-> k[2], domain |-> "electrical",
      details |-> [voltage_unbalance |-> Zero, current_unbalance |-> Frac(k[3], 1),
                   load_estimate |-> Zero]] : k \in ElecKinds, sc \in SevConf}

\* bearing-temperature maps; EmptyDict is "no map" (temp_data None or {})
TempMaps ==
    {EmptyDict, DefaultTemps, [DefaultTemps EXCEPT !.Pump_DE = 96],
     [k \in {"Pump_DE"} |-> 90], [k \in {"Pump_DE"} |-> 95],
     [k \in BearingLocs |-> 85], [DefaultTemps EXCEPT !.Motor_DE = 80],
     [DefaultTemps EXCEPT !.Pump_DE = 96, !.Pump_NDE = 62],
     [Pump_DE |-> 96, Pump_NDE |-> 62],
     [DefaultTemps EXCEPT !.Motor_DE = 78, !.Motor_NDE = 50],
     [DefaultTemps EXCEPT !.Pump_DE = 85, !.Pump_NDE = 0]}

TemperatureArgs == [temp_dict : TempMaps, diagnosis_consistent : BOOLEAN]

CorrelateArgs ==
    [mech_result : MechResults, hyd_result : HydResults, elec_result : ElecResults,
     shared_context : {DefaultContext("Diesel")}, temp_data : TempMaps]

Correlation(a) ==
    aggregate_cross_domain_diagnosis(a.mech_result, a.hyd_result, a.elec_result,
                                     a.shared_context, a.temp_data)

InitCorrelate ==
    /\ \/ fn = "aggregate_cross_domain_diagnosis" /\ args \in CorrelateArgs
       \/ fn = "calculate_temperature_confidence_adjustment" /\ args \in TemperatureArgs
    /\ ret = Pending
    /\ session_state = EmptyDict
    /\ calls = <<>>

CallCorrelate ==
    /\ fn = "aggregate_cross_domain_diagnosis" /\ ret = Pending
    /\ ret' = Returned(Correlation(args))
    /\ UNCHANGED <<fn, args, session_state, calls>>

CallTemperature ==
    /\ fn = "calculate_temperature_confidence_adjustment" /\ ret = Pending
    /\ ret' = Returned(calculate_temperature_confidence_adjustment(
                  args.temp_dict, args.diagnosis_consistent))
    /\ UNCHANGED <<fn, args, session_state, calls>>

NextCorrelate == CallCorrelate \/ CallTemperature

SpecCorrelate == InitCorrelate /\ [][NextCorrelate]_vars


(***************************************************************************)
(* Repeated calls: every completed call is kept in `calls`                 *)
(***************************************************************************)
\* how many calls a run makes
MaxCalls == 3

DetPointArgs ==
    {[peaks |-> SpecExample2, bands |-> DefaultBands, rpm |-> Rpm, point |-> points[1],
      overall_vel |-> 46, has_fft |-> TRUE, bearing_temp |-> t] : t \in {65, 75}}

DetHydraulicArgs ==
    {[suction_pressure |-> 12, discharge_pressure |-> 85, flow_rate |-> 100,
      motor_power |-> 450, sg |-> 84, fluid_props |-> FLUID_PROPERTIES.Diesel,
      design |-> [rated_flow_m3h |-> 120, rated_head_m |-> 850, bep_efficiency |-> 78],
      npsh_required |-> 42, noise_type |-> n, fluid_condition |-> "Jernih"]
        : n \in {"Normal", "Crackling"}}

DetElectricalArgs ==
    {[v |-> <<400, 402, 398>>, i |-> <<820, 840, 830>>, rated_voltage |-> r, fla |-> 85]
        : r \in {0, 400}}

DetCorrelateArgs ==
    {[mech_result |-> [diagnosis |-> "Tidak Terdiagnosa", confidence |-> 40,
                       severity |-> "Medium", fault_type |-> None, domain |-> "mechanical"],
      hyd_result |-> HydraulicAnalysis(h),
      elec_result |-> [diagnosis |-> "NORMAL_ELECTRICAL", confidence |-> 0,
                       severity |-> "Low", fault_type |-> None, domain |-> "electrical"],
      shared_context |-> DefaultContext("Diesel"), temp_data |-> t]
        : h \in DetHydraulicArgs, t \in {[DefaultTemps EXCEPT !.Pump_DE = 96]}}

Call(f, a, r) == [fn |-> f, args |-> a, ret |-> r]

InitDet ==
    /\ fn = "" /\ args = EmptyDict /\ ret = Pending
    /\ session_state = EmptyDict
    /\ calls = <<>>

\* a call returns: the caller sees the outcome, and the call is logged
Complete(f, a, r) ==
    /\ Len(calls) < MaxCalls
    /\ fn' = f /\ args' = a /\ ret' = r
    /\ calls' = Append(calls, Call(f, a, r))
    /\ UNCHANGED session_state

DetPoint ==
    \E a \in DetPointArgs :
        Complete("diagnose_single_point_mechanical", a,
                 Returned(diagnose_single_point_mechanical(
                     a.peaks, a.bands, a.rpm, a.point, a.overall_vel,
                     a.has_fft, a.bearing_temp)))

DetHydraulic ==
    \E a \in DetHydraulicArgs :
        Complete("diagnose_hydraulic_single_point", a, Returned(HydraulicAnalysis(a)))

DetElectrical ==
    \E a \in DetElectricalArgs :
        Complete("diagnose_electrical_condition", a, ElectricalAnalysis(a))

DetCorrelate ==
    \E a \in DetCorrelateArgs :
        Complete("aggregate_cross_domain_diagnosis", a, Returned(Correlation(a)))

NextDet == DetPoint \/ DetHydraulic \/ DetElectrical \/ DetCorrelate

SpecDet == InitDet /\ [][NextDet]_vars


(***************************************************************************)
(* The Streamlit session: every interaction reruns main() from the top     *)
(* with the widgets' current values and at most one button pressed.        *)
(*                                                                         *)
(* The widget values of a run are the record ui:                           *)
(*   fluid_type  the sidebar's fluid selection                             *)
(*   form        the mechanical tab's form                                 *)
(*   hyd         the hydraulic tab's inputs                                *)
(*   elec        the electrical tab's inputs                               *)
(***************************************************************************)
\* st.session_state.<key> = value
Put(ss, key, value) ==
    [k \in DOMAIN ss \cup {key} |-> IF k = key THEN value ELSE ss[k]]

\* if "shared_context" not in st.session_state, then the sidebar's update
Sidebar(ss, ui) ==
    LET ss0 == IF "shared_context" \in DOMAIN ss THEN ss
               ELSE Put(ss, "shared_context", DefaultContext("Diesel"))
    IN Put(ss0, "shared_context",
           [ss0.shared_context EXCEPT !.rpm = ui.form.rpm, !.fluid_type = ui.fluid_type])

\* st.session_state.mech_data as the handler builds it
mech_data(form, run) ==
    [points |-> [i \in 1..12 |->
        [velocity |-> form.input_data[i],
         bands |-> form.bands_inputs[i],
         diagnosis |-> run.point_results[i].diagnosis,
         confidence |-> run.point_results[i].confidence,
         severity |-> run.point_results[i].severity]],
     system_diagnosis |-> run.mech_system.diagnosis]

\* the three session keys the mechanical handler stores
StoreMechanical(ss, form, run) ==
    Put(Put(Put(ss, "mech_result", run.mech_system), "mech_data", mech_data(form, run)),
        "temp_data", form.temp_data)

\* the mechanical tab's button handler
MechanicalTab(ss, ui, button) ==
    IF button # "run_mech" THEN ss
    ELSE StoreMechanical(ss, ui.form, MechanicalAnalysis(ui.form))

\* the arguments the hydraulic handler passes on
HydraulicCall(ui) ==
    [k \in DOMAIN ui.hyd \cup {"fluid_props"} |->
        IF k = "fluid_props" THEN FLUID_PROPERTIES[ui.fluid_type] ELSE ui.hyd[k]]

\* analyze_hyd_disabled = not steady_verified or suction_pressure >= discharge_pressure
analyze_hyd_disabled(ui) == ui.hyd.suction_pressure >= ui.hyd.discharge_pressure

\* st.session_state.hyd_data as the handler builds it
hyd_data(a, fluid_type, hyd_calc, hyd_result) ==
    [measurements |-> [suction_pressure |-> a.suction_pressure,
                       discharge_pressure |-> a.discharge_pressure,
                       flow_rate |-> a.flow_rate,
                       motor_power |-> a.motor_power],
     fluid_type |-> fluid_type, sg |-> a.sg,
     head_m |-> hyd_calc.head_m,
     efficiency_percent |-> hyd_calc.efficiency_percent,
     npsh_margin_m |-> hyd_result.details.npsh_margin_m,
     diagnosis |-> hyd_result.diagnosis,
     confidence |-> hyd_result.confidence,
     severity |-> hyd_result.severity]

\* the two session keys the hydraulic handler stores
StoreHydraulic(ss, a, fluid_type, hyd_calc, hyd_result) ==
    Put(Put(ss, "hyd_result", hyd_result), "hyd_data",
        hyd_data(a, fluid_type, hyd_calc, hyd_result))

\* the hydraulic handler's calculation and diagnosis for the arguments a
HydraulicHandler(ss, a, fluid_type) ==
    StoreHydraulic(ss, a, fluid_type,
                   calculate_hydraulic_parameters(
                       a.suction_pressure, a.discharge_pressure, a.flow_rate,
                       a.motor_power, a.sg),
                   HydraulicAnalysis(a))

\* the hydraulic tab's button handler
HydraulicTab(ss, ui, button) ==
    IF button # "run_hyd" \/ analyze_hyd_disabled(ui) THEN ss
    ELSE HydraulicHandler(ss, HydraulicCall(ui), ui.fluid_type)

\* st.session_state.elec_data as the handler builds it
elec_data(ui, elec_calc, elec_result) ==
    [measurements |-> [v |-> ui.elec.v, i |-> ui.elec.i],
     voltage_unbalance |-> elec_calc.voltage_unbalance_percent,
     current_unbalance |-> elec_calc.current_unbalance_percent,
     load_estimate |-> elec_calc.load_estimate_percent,
     diagnosis |-> elec_result.diagnosis,
     confidence |-> elec_result.confidence,
     severity |-> elec_result.severity]

\* the two session keys the electrical handler stores
StoreElectrical(ss, ui, elec_calc, elec_result) ==
    Put(Put(ss, "elec_result", elec_result), "elec_data",
        elec_data(ui, elec_calc, elec_result))

\* the electrical tab's button handler, given the real-time calculation
ElectricalTab(ss, ui, elec_calc, button) ==
    IF button # "run_elec" THEN ss
    ELSE StoreElectrical(ss, ui, elec_calc,
                         diagnose_electrical_condition(
                             elec_calc, [rated_voltage |-> ui.elec.rated_voltage,
                                         fla |-> ui.elec.fla]))

analyses_complete(ss) ==
    {"mech_result", "hyd_result", "elec_result"} \subseteq DOMAIN ss

\* sensitivity variant for C6: an integrated result computed once and then kept
IntegratedTab_once(ss) ==
    IF ~analyses_complete(ss) \/ "integrated_result" \in DOMAIN ss THEN ss
    ELSE Put(ss, "integrated_result",
             aggregate_cross_domain_diagnosis(
                 ss.mech_result, ss.hyd_result, ss.elec_result, ss.shared_context,
                 Get(ss, "temp_data", EmptyDict)))

\* the integrated tab: recomputed on every run once the three results exist
IntegratedTab(ss) ==
    IF ~analyses_complete(ss) THEN ss
    ELSE Put(ss, "integrated_result",
             aggregate_cross_domain_diagnosis(
                 ss.mech_result, ss.hyd_result, ss.elec_result, ss.shared_context,
                 Get(ss, "temp_data", EmptyDict)))

\* the electrical and the integrated tab; an exception in the real-time
\* calculation ends the run before either
LastTabs(ss, ui, elec_calc, button) ==
    IF elec_calc.raised THEN ss
    ELSE IntegratedTab(ElectricalTab(ss, ui, elec_calc.value, button))

\* one run of main(): the tabs in script order
main(ss, ui, button) ==
    LastTabs(HydraulicTab(MechanicalTab(Sidebar(ss, ui), ui, button), ui, button), ui,
             calculate_electrical_parameters(
                 ui.elec.v[1], ui.elec.v[2], ui.elec.v[3],
                 ui.elec.i[1], ui.elec.i[2], ui.elec.i[3],
                 ui.elec.rated_voltage, ui.elec.fla),
             button)


\* widget values of the sessions checked
SessionFluids == {"Diesel", "Pertalite"}

DefaultForm == Form("Efisien", DefaultTemps, EmptyDict)
SessionForms ==
    {DefaultForm,
     Form("Efisien", [DefaultTemps EXCEPT !.Pump_DE = 96], (1 :> 2)),
     Form("Lengkap", DefaultTemps, (1 :> 3) @@ (4 :> 1))}

DefaultHyd ==
    [suction_pressure |-> 12, discharge_pressure |-> 85, flow_rate |-> 100,
     motor_power |-> 450, sg |-> 84,
     design |-> [rated_flow_m3h |-> 120, rated_head_m |-> 850, bep_efficiency |-> 78],
     npsh_required |-> 42, noise_type |-> "Normal", fluid_condition |-> "Jernih"]
SessionHyd ==
    {DefaultHyd,
     [DefaultHyd EXCEPT !.suction_pressure = 0, !.npsh_required = 80,
                        !.noise_type = "Crackling"],
     [DefaultHyd EXCEPT !.discharge_pressure = 5]}

DefaultElec ==
    [v |-> <<400, 402, 398>>, i |-> <<820, 840, 830>>, rated_voltage |-> 400, fla |-> 85]
SessionElec ==
    {DefaultElec, [DefaultElec EXCEPT !.v = <<400, 410, 390>>],
     [DefaultElec EXCEPT !.v = <<440, 440, 440>>]}

Ui(fluid_type, form, hyd, elec) ==
    [fluid_type |-> fluid_type, form |-> form, hyd |-> hyd, elec |-> elec]
DefaultUi == Ui("Diesel", DefaultForm, DefaultHyd, DefaultElec)

\* the session after the page's first load
Init ==
    /\ fn = "" /\ args = DefaultUi /\ ret = Returned(None)
    /\ session_state = main(EmptyDict, DefaultUi, "")
    /\ calls = <<>>

\* one script run; `calls` keeps the latest run with the session it started from
Run(button, ui) ==
    /\ session_state' = main(session_state, ui, button)
    /\ fn' = button /\ args' = ui
    /\ calls' = <<[fn |-> button, args |-> ui, before |-> session_state]>>
    /\ UNCHANGED ret

\* a widget changes, no button pressed
Rerun ==
    \E f \in SessionFluids : Run("", Ui(f, DefaultForm, DefaultHyd, DefaultElec))

RunMechanical ==
    \E f \in SessionFluids, form \in SessionForms :
        Run("run_mech", Ui(f, form, DefaultHyd, DefaultElec))

RunHydraulic ==
    \E f \in SessionFluids, hyd \in SessionHyd :
        /\ ~analyze_hyd_disabled(Ui(f, DefaultForm, hyd, DefaultElec))
        /\ Run("run_hyd", Ui(f, DefaultForm, hyd, DefaultElec))

RunElectrical ==
    \E f \in SessionFluids, elec \in SessionElec :
        Run("run_elec", Ui(f, DefaultForm, DefaultHyd, elec))

Next == Rerun \/ RunMechanical \/ RunHydraulic \/ RunElectrical

Spec == Init /\ [][Next]_vars


(***************************************************************************)
(* Complete runs: from a fresh session the three analyses are run once,    *)
(* in tab order, and the integrated tab shows the correlator's result      *)
(***************************************************************************)
\* mechanical forms of the complete runs: the defaults, or one profile at
\* Pump DE Horizontal
RunForms ==
    {Form(m, DefaultTemps, a) :
        m \in {"Efisien", "Lengkap"},
        a \in {EmptyDict} \cup {(1 :> p) : p \in 1..Len(Profiles)}}

RunHyd ==
    {h \in [suction_pressure : {0, 12}, discharge_pressure : {5, 85, 100},
            flow_rate : {100}, motor_power : {260, 450}, sg : {84},
            design : {DefaultHyd.design}, npsh_required : {42, 130},
            noise_type : {"Normal", "Crackling"}, fluid_condition : {"Jernih"}] :
        h.suction_pressure < h.discharge_pressure}

RunElec == [v : Volts \ {<<0, 0, 0>>}, i : Amps, rated_voltage : {400}, fla : {85}]

\* the session after the three buttons, each pressed with its tab filled in
AfterMechanical(form) ==
    main(main(EmptyDict, DefaultUi, ""), Ui("Diesel", form, DefaultHyd, DefaultElec),
         "run_mech")
AfterHydraulic(ss, hyd) == main(ss, Ui("Diesel", DefaultForm, hyd, DefaultElec), "run_hyd")
AfterElectrical(ss, elec) == main(ss, Ui("Diesel", DefaultForm, DefaultHyd, elec), "run_elec")

InitRun ==
    /\ fn = "main" /\ args = None /\ ret = Pending
    /\ session_state = EmptyDict /\ calls = <<>>

Finish(ss, form, hyd, elec) ==
    /\ session_state' = ss
    /\ args' = Ui("Diesel", form, hyd, elec)
    /\ ret' = Returned(ss.integrated_result)
    /\ UNCHANGED <<fn, calls>>

CompleteRun ==
    /\ ret = Pending
    /\ \E form \in RunForms, hyd \in RunHyd, elec \in RunElec :
           Finish(AfterElectrical(AfterHydraulic(AfterMechanical(form), hyd), elec),
                  form, hyd, elec)

NextRun == CompleteRun

SpecRun == InitRun /\ [][NextRun]_vars


(***************************************************************************)
(* Properties                                                              *)
(***************************************************************************)
CorrelatorReturned ==
    fn = "aggregate_cross_domain_diagnosis" /\ ret.status = "returned"

\* C1: for every triple of domain results and every bearing-temperature map
\* (none included), the severity the correlator returns is never lower than
\* the highest of the three domain severities (Low < Medium < High).
C1_SeverityAtLeastMax ==
    CorrelatorReturned =>
        /\ SevRank(ret.value.severity) >= SevRank(args.mech_result.severity)
        /\ SevRank(ret.value.severity) >= SevRank(args.hyd_result.severity)
        /\ SevRank(ret.value.severity) >= SevRank(args.elec_result.severity)

\* a Medium hydraulic result beside two Low results, no temperature map:
\* the correlator returns Medium
C1_Witness ==
    /\ CorrelatorReturned
    /\ args.mech_result.severity = "Low" /\ args.hyd_result.severity = "Medium"
    /\ args.elec_result.severity = "Low" /\ args.temp_data = EmptyDict
    /\ ret.value.severity = "Medium"

\* C2 as stated: for domain confidences in 0..99 (all three zero included)
\* and every bearing-temperature map, the correlator's confidence lies in
\* [0, 95], never negative under the temperature penalty.
C2_ConfidenceWithin0And95 ==
    CorrelatorReturned => ret.value.confidence \in 0..95

ClassifierReturned ==
    /\ fn \in {"diagnose_single_point_mechanical", "diagnose_hydraulic_single_point",
               "diagnose_electrical_condition"}
    /\ ret.status = "returned"

\* C3: on every return path, the confidence of the result of each per-domain
\* classifier is an integer in [0, 99].
C3_ClassifierConfidenceRange ==
    ClassifierReturned => ret.value.confidence \in 0..99

\* a cavitation result whose confidence formula exceeds its cap: 90 is returned
C3_Witness ==
    /\ fn = "diagnose_hydraulic_single_point" /\ ret.status = "returned"
    /\ ret.value.diagnosis = "CAVITATION" /\ ret.value.confidence = 90
    /\ 70 + PyInt(10 * ret.value.details.npsh_margin_m.d
                    - 20 * ret.value.details.npsh_margin_m.n,
                  ret.value.details.npsh_margin_m.d) > 99

MechanicalReturned == fn = "mechanical_analysis" /\ ret.status = "returned"

LowFrequencyDiagnoses == {"UNBALANCE", "MISALIGNMENT", "LOOSENESS"}
BearingDiagnoses == {"BEARING_EARLY", "BEARING_DEVELOPED", "BEARING_SEVERE"}

\* how many of the 12 point results carry a diagnosis
Agreeing(results, diagnosis) ==
    Cardinality({i \in DOMAIN results : results[i].diagnosis = diagnosis})

\* C4 as stated: a low-frequency diagnosis is the system verdict if and only
\* if at least 3 of the 12 point results carry it; with exactly 2 agreeing
\* points and no bearing fault the verdict is Normal.
C4_QuorumLaw ==
    MechanicalReturned =>
        LET results == ret.value.point_results
            verdict == ret.value.mech_system
        IN \A d \in LowFrequencyDiagnoses :
            /\ verdict.diagnosis = d <=> Agreeing(results, d) >= 3
            /\ ( /\ Agreeing(results, d) = 2
                 /\ \A i \in DOMAIN results : results[i].diagnosis \notin BearingDiagnoses )
               => verdict.diagnosis = "Normal"

RealFault(result) == result.fault_type \notin {None, "normal"}

\* C5 as stated: when some point has a real fault_type, the point whose
\* diagnosis and fault_type are copied into the system verdict is never one
\* whose fault_type is null or "normal".
C5_DominantHasFault ==
    MechanicalReturned =>
        LET results == ret.value.point_results
            dominant == DominantIdx(results)
        IN (dominant # 0 /\ \E i \in DOMAIN results : RealFault(results[i]))
               => RealFault(results[dominant])

\* C6: in every reachable session an integrated result exists only if a
\* mechanical, a hydraulic and an electrical result exist, and it is the
\* correlation of the three results (and the context and temperatures)
\* stored now, never of a replaced one.
C6_IntegratedIsCurrent ==
    "integrated_result" \in DOMAIN session_state =>
        /\ analyses_complete(session_state)
        /\ session_state.integrated_result =
               aggregate_cross_domain_diagnosis(
                   session_state.mech_result, session_state.hyd_result,
                   session_state.elec_result, session_state.shared_context,
                   Get(session_state, "temp_data", EmptyDict))

\* a mechanical run replaces the mechanical result of a session that already
\* held an integrated result, and the severity of the integrated result changes
C6_Witness ==
    /\ calls # <<>> /\ fn = "run_mech"
    /\ "integrated_result" \in DOMAIN calls[1].before
    /\ "integrated_result" \in DOMAIN session_state
    /\ calls[1].before.mech_result # session_state.mech_result
    /\ calls[1].before.integrated_result.severity
           # session_state.integrated_result.severity

\* C7 as stated: no core calculation or classifier raises when specific
\* gravity, motor power, rated flow, rated head, BEP efficiency, full-load
\* current, rated voltage, average voltage or average current is zero.
C7_NoRaise == ret.status # "raised"

Unclassified == "Tidak Terdiagnosa"

\* C8 as stated: every result labelled "Tidak Terdiagnosa" (a mechanical
\* point result, the hydraulic result, the mechanical system verdict) has a
\* confidence between 30 and 40.
C8_UnclassifiedConfidence ==
    /\ ( /\ fn \in {"diagnose_single_point_mechanical", "diagnose_hydraulic_single_point"}
         /\ ret.status = "returned" /\ ret.value.diagnosis = Unclassified )
       => ret.value.confidence \in 30..40
    /\ MechanicalReturned =>
          /\ \A i \in DOMAIN ret.value.point_results :
                 ret.value.point_results[i].diagnosis = Unclassified
                     => ret.value.point_results[i].confidence \in 30..40
          /\ ret.value.mech_system.diagnosis = Unclassified
                 => ret.value.mech_system.confidence \in 30..40

\* C9 as stated: the confidence of the mechanical system verdict lies in
\* [0, 95], the case where no point reports a fault included.
C9_VerdictWithin0And95 ==
    MechanicalReturned => ret.value.mech_system.confidence \in 0..95

\* C9: the confidence of the mechanical system verdict lies in [0, 95] when
\* some point is of Medium or High severity, and is 99, with the verdict
\* Normal, when none is.
C9_VerdictConfidenceRange ==
    MechanicalReturned =>
        LET results == ret.value.point_results
            verdict == ret.value.mech_system
        IN IF \E i \in DOMAIN results : results[i].severity \in {"Medium", "High"}
           THEN verdict.confidence \in 0..95
           ELSE verdict.confidence = 99 /\ verdict.diagnosis = "Normal"

\* two Medium points of different confidence: the verdict carries their mean
C9_Witness ==
    /\ MechanicalReturned
    /\ ret.value.mech_system.severity = "Medium"
    /\ \E i, j \in WithSeverity(ret.value.point_results, "Medium") :
           ret.value.point_results[i].confidence
               < ret.value.point_results[j].confidence
    /\ ret.value.mech_system.confidence \in 1..95

SameInputs(c, d) == c.fn = d.fn /\ c.args = d.args

RoundNearest(n, d) ==
    LET q == n \div d
        r == n % d
    IN IF 2 * r < d THEN q
       ELSE IF 2 * r > d THEN q + 1
       ELSE IF q % 2 = 0 THEN q ELSE q + 1

\* C11: whenever the unbalance rule fires on a point, the result is UNBALANCE
\* with confidence min(95, 70 + round(peak_1x / 4.5 * 10)), rounding to nearest
\* (79 for a 1x peak of 4.0 mm/s).
C11_UnbalanceConfidence ==
    (/\ fn = "diagnose_single_point_mechanical" /\ ret.status = "returned"
     /\ UnbalanceRule(args.peaks, args.rpm, args.point, args.has_fft))
    => /\ ret.value.diagnosis = "UNBALANCE"
       /\ ret.value.confidence
              = Min(95, 70 + RoundNearest(10 * FirstAmp(args.peaks, 1, args.rpm), 450))

HydraulicReturned == fn = "diagnose_hydraulic_single_point" /\ ret.status = "returned"

\* the handler's calculation for the arguments of the call
HydCalcOf(a) ==
    calculate_hydraulic_parameters(a.suction_pressure, a.discharge_pressure,
                                   a.flow_rate, a.motor_power, a.sg)

\* efficiency below 90% of the BEP efficiency: a deviation below -10%
EfficiencyDevBelowMinus10(a) ==
    /\ a.design.bep_efficiency > 0
    /\ 10 * HydCalcOf(a).efficiency_percent.n
           < 9 * a.design.bep_efficiency * HydCalcOf(a).efficiency_percent.d

\* head within 5% of the design head (in 0.1 m); without a design head the
\* deviation is reported as 0
HeadDevWithin5(a) ==
    \/ a.design.rated_head_m <= 0
    \/ 20 * Abs(10 * HydCalcOf(a).head_m.n - a.design.rated_head_m * HydCalcOf(a).head_m.d)
           <= a.design.rated_head_m * HydCalcOf(a).head_m.d

\* crackling noise with an NPSH margin below 0.5 m
CavitationFires(a) ==
    LET npsh_margin == NpshMargin(a.suction_pressure, a.fluid_props.vapor_pressure_kpa_38C,
                                  a.fluid_props.sg, a.npsh_required)
    IN a.noise_type = "Crackling" /\ 2 * npsh_margin.n < npsh_margin.d

\* C12: an efficiency deviation below -10% with a head deviation within +-5%
\* is diagnosed EFFICIENCY_DROP unless the cavitation rule fires.
C12_EfficiencyDrop ==
    (/\ HydraulicReturned
     /\ EfficiencyDevBelowMinus10(args) /\ HeadDevWithin5(args)
     /\ ~CavitationFires(args))
    => /\ ret.value.diagnosis = "EFFICIENCY_DROP"
       /\ DOMAIN ret.value.details.deviations = {"eff_dev"}

\* suction 1.2 bar, discharge 8.5 bar, flow 100 m3/h, power 45 kW, SG 0.84,
\* design head 85 m, BEP efficiency 78%
C12_Witness ==
    /\ HydraulicReturned
    /\ args.suction_pressure = 12 /\ args.discharge_pressure = 85
    /\ args.flow_rate = 100 /\ args.motor_power = 450 /\ args.sg = 84
    /\ args.design.rated_head_m = 850 /\ args.design.bep_efficiency = 78
    /\ EfficiencyDevBelowMinus10(args) /\ HeadDevWithin5(args)
    /\ ret.value.diagnosis = "EFFICIENCY_DROP"

TemperatureReturned ==
    fn = "calculate_temperature_confidence_adjustment" /\ ret.status = "returned"

\* Pump DE = 96 degC and Pump NDE = 62 degC
HotPumpDE(temp_dict) ==
    /\ {"Pump_DE", "Pump_NDE"} \subseteq DOMAIN temp_dict
    /\ temp_dict["Pump_DE"] = 96 /\ temp_dict["Pump_NDE"] = 62

\* a fault-positive mechanical result
FaultPositive(mech_result) ==
    mech_result.fault_type # None /\ mech_result.fault_type # "normal"

HasNote(notes, note) == \E i \in 1..Len(notes) : notes[i] = note

LocalizationNote == Note("Pump DE-NDE localized fault", "Pump", 34)

\* C13 as stated: with Pump DE = 96 and Pump NDE = 62 and a fault-positive
\* mechanical diagnosis the temperature module returns a bonus holding both
\* the Critical-zone bonus and the localization bonus (20 + 5) with the
\* localization note, and the integrated severity is High.
C13_CriticalPlusLocalization ==
    /\ (TemperatureReturned /\ HotPumpDE(args.temp_dict) /\ args.diagnosis_consistent)
       => /\ ret.value.adjustment >= 20 + 5
          /\ HasNote(ret.value.notes, LocalizationNote)
    /\ (CorrelatorReturned /\ HotPumpDE(args.temp_data) /\ FaultPositive(args.mech_result))
       => ret.value.severity = "High"

\* C13, amended: with Pump DE = 96 and Pump NDE = 62 and a fault-positive
\* mechanical diagnosis the temperature module returns 20, the clamp of the
\* accumulated 20 + 5, with the Critical-zone note and the localization note,
\* and the integrated severity is High whatever the domain severities are.
C13_CriticalClampedAndLocalized ==
    /\ (TemperatureReturned /\ HotPumpDE(args.temp_dict) /\ args.diagnosis_consistent)
       => /\ ret.value.adjustment = 20
          /\ HasNote(ret.value.notes, Note("Critical confirmation", "Pump_DE", 96))
          /\ HasNote(ret.value.notes, LocalizationNote)
    /\ (CorrelatorReturned /\ HotPumpDE(args.temp_data) /\ FaultPositive(args.mech_result))
       => /\ ret.value.severity = "High"
          /\ HasNote(ret.value.temperature_notes, LocalizationNote)

\* the hot pump bearing with three Low domain results: the severity is raised
C13_Witness ==
    /\ CorrelatorReturned /\ HotPumpDE(args.temp_data) /\ FaultPositive(args.mech_result)
    /\ args.mech_result.severity = "Low" /\ args.hyd_result.severity = "Low"
    /\ args.elec_result.severity = "Low"
    /\ ret.value.severity = "High"
    /\ HasNote(ret.value.temperature_notes, LocalizationNote)

\* every point at the form defaults: velocity 1.0 mm/s, bands 0.2 / 0.15 / 0.1 g,
\* peak inputs untouched
AllDefaults(form) ==
    \A i \in 1..12 : /\ form.input_data[i] = 10
                     /\ form.bands_inputs[i] = DefaultBands
                     /\ form.fft_form[i] = FormDefaultPeaks(form.rpm)

\* C14: a mechanical run with all 12 points at velocity 1.0 mm/s, default band
\* energies and default peak inputs gives, in either FFT mode, the system
\* verdict Normal with confidence 99 and severity Low.
C14_AllNormalRun ==
    (MechanicalReturned /\ AllDefaults(args))
    => /\ ret.value.mech_system.diagnosis = "Normal"
       /\ ret.value.mech_system.confidence = 99
       /\ ret.value.mech_system.severity = "Low"

\* the locations the three domain results of a call carry
DomainLocations(a) ==
    {r.location : r \in {d \in {a.mech_result, a.hyd_result, a.elec_result} :
                            "location" \in DOMAIN d}}

\* C15: the location of the integrated result is the location of one of the
\* domain results or "Pump-Motor System", never the placeholder "N/A".
C15_LocationFromDomain ==
    CorrelatorReturned
    => /\ ret.value.location \in DomainLocations(args) \cup {"Pump-Motor System"}
       /\ ret.value.location # "N/A"

\* C16: a point result is the dict its classifier returned, with no field
\* changed and no key added by the 12-point loop or the system aggregation.
C16_PointResultsUnchanged ==
    MechanicalReturned
    => \A i \in 1..12 : ret.value.point_results[i] = ClassifiedPoint(args, i)

PointReturned == fn = "diagnose_single_point_mechanical" /\ ret.status = "returned"

\* the rules in their fixed order
RuleOrder ==
    <<"UNBALANCE", "MISALIGNMENT", "LOOSENESS",
      "BEARING_EARLY", "BEARING_DEVELOPED", "BEARING_SEVERE">>

\* the predicate of the k-th rule on the arguments of a call
RuleHolds(k, a) ==
    CASE k = 1 -> UnbalanceRule(a.peaks, a.rpm, a.point, a.has_fft)
      [] k = 2 -> MisalignmentRule(a.peaks, a.rpm, a.point, a.has_fft)
      [] k = 3 -> LoosenessRule(a.peaks, a.rpm, a.point, a.has_fft)
      [] k = 4 -> BearingEarlyRule(a.bands)
      [] k = 5 -> BearingDevelopedRule(a.bands)
      [] k = 6 -> BearingSevereRule(a.bands)

Holding(a) == {k \in 1..Len(RuleOrder) : RuleHolds(k, a)}

\* C17: the point classifier returns the diagnosis of the first rule, in the
\* order Unbalance, Misalignment, Looseness, Bearing-Early, Bearing-Developed,
\* Bearing-Severe, whose predicate holds (fault_type low_freq for the spectral
\* rules, high_freq for the bearing rules), and the default when none holds.
C17_FirstRuleWins ==
    PointReturned
    => IF Holding(args) # {}
       THEN /\ ret.value.diagnosis = RuleOrder[MinOf(Holding(args))]
            /\ ret.value.fault_type
                   = IF MinOf(Holding(args)) <= 3 THEN "low_freq" ELSE "high_freq"
       ELSE /\ ret.value.diagnosis \in {"Normal", "Tidak Terdiagnosa"}
            /\ ret.value.fault_type = None

\* the unbalance rule and a bearing rule both hold: the result is UNBALANCE
C17_Witness ==
    /\ PointReturned
    /\ RuleHolds(1, args)
    /\ \E k \in 4..6 : RuleHolds(k, args)
    /\ ret.value.diagnosis = "UNBALANCE" /\ ret.value.fault_type = "low_freq"

\* the bearing (high_freq) point results of a run
BearingIdx(results) == {i \in DOMAIN results : results[i].fault_type = "high_freq"}

\* a High bearing point result makes the system verdict a High bearing diagnosis
BearingOverridesWhenHigh(results, verdict) ==
    (\E i \in BearingIdx(results) : results[i].severity = "High")
    => /\ verdict.fault_type = "high_freq" /\ verdict.severity = "High"
       /\ \E i \in BearingIdx(results) :
              /\ results[i].severity = "High"
              /\ verdict.diagnosis = results[i].diagnosis

\* a bearing result below High is the verdict only without a low-frequency verdict
BearingFillsInOnly(results, verdict) ==
    (/\ verdict.fault_type = "high_freq"
     /\ \A i \in BearingIdx(results) : results[i].severity # "High")
    => \A d \in LowFrequencyDiagnoses : Agreeing(results, d) < 3

\* C18: when the worst bearing point result has severity High the system
\* verdict is that bearing diagnosis, whatever low-frequency results there
\* are, a High one of higher confidence included; a worst bearing result below
\* High is the verdict only if no low-frequency verdict was established.
C18_BearingOverride ==
    MechanicalReturned
    => /\ BearingOverridesWhenHigh(ret.value.point_results, ret.value.mech_system)
       /\ BearingFillsInOnly(ret.value.point_results, ret.value.mech_system)

\* C19: the mechanical system verdict carries a needs_more_data flag, raised
\* exactly when its confidence is below 70 and its diagnosis is not Normal.
C19_NeedsMoreData ==
    MechanicalReturned
    => /\ "needs_more_data" \in DOMAIN ret.value.mech_system
       /\ ret.value.mech_system.needs_more_data
              = (/\ ret.value.mech_system.confidence < 70
                 /\ ret.value.mech_system.diagnosis # "Normal")

ElectricalReturned == fn = "diagnose_electrical_condition" /\ ret.status = "returned"

\* the real-time calculation for the arguments of a call that returned
ElecCalcOf(a) ==
    calculate_electrical_parameters(a.v[1], a.v[2], a.v[3], a.i[1], a.i[2], a.i[3],
                                    a.rated_voltage, a.fla).value

\* the classification the priority list gives: diagnosis and, where the list
\* names one, severity ("" where it does not)
PriorityClass(a) ==
    LET v_sum == a.v[1] + a.v[2] + a.v[3]
        vu == ElecCalcOf(a).voltage_unbalance_percent
        cu == ElecCalcOf(a).current_unbalance_percent
        load == ElecCalcOf(a).load_estimate_percent
    IN IF 10 * v_sum < 27 * a.rated_voltage            \* average below 0.9 x rated
           THEN <<"UNDER_VOLTAGE", IF FracGt(load, 80) THEN "High" ELSE "Medium">>
       ELSE IF 10 * v_sum > 33 * a.rated_voltage       \* average above 1.1 x rated
           THEN <<"OVER_VOLTAGE", "Medium">>
       ELSE IF FracGt(vu, ELECTRICAL_LIMITS.voltage_unbalance_critical)
           THEN <<"VOLTAGE_UNBALANCE", "High">>
       ELSE IF FracGt(vu, ELECTRICAL_LIMITS.voltage_unbalance_warning)
           THEN <<"VOLTAGE_UNBALANCE", "Medium">>
       ELSE IF FracGt(cu, ELECTRICAL_LIMITS.current_unbalance_critical)
           THEN <<"CURRENT_UNBALANCE", "High">>
       ELSE IF FracGt(cu, ELECTRICAL_LIMITS.current_unbalance_warning)
           THEN <<"CURRENT_UNBALANCE", "Medium">>
       ELSE IF FracGt(load, ELECTRICAL_LIMITS.current_load_critical)
           THEN <<"OVER_LOAD", "">>
       ELSE IF FracLt(load, 50) THEN <<"UNDER_LOAD", "">>
       ELSE <<"NORMAL_ELECTRICAL", "Low">>

\* C20: the electrical result is the first class, in the order voltage out of
\* tolerance, voltage unbalance, current unbalance, load, that applies to the
\* readings, with the severity the list names, and NORMAL_ELECTRICAL with
\* confidence 95 when none applies.
C20_ElectricalPriority ==
    ElectricalReturned
    => /\ ret.value.diagnosis = PriorityClass(args)[1]
       /\ PriorityClass(args)[2] # "" => ret.value.severity = PriorityClass(args)[2]
       /\ ret.value.diagnosis = "NORMAL_ELECTRICAL" => ret.value.confidence = 95

\* the deviation pattern of the call's measurements against its design data
PatternOf(a) ==
    classify_hydraulic_performance(
        HydCalcOf(a).head_m, a.design.rated_head_m, HydCalcOf(a).efficiency_percent,
        a.design.bep_efficiency, a.flow_rate, a.design.rated_flow_m3h).pattern

\* the diagnosis the priority list gives
HydraulicPriority(a) ==
    IF CavitationFires(a) THEN "CAVITATION"
    ELSE IF /\ PatternOf(a) = "UNDER_PERFORMANCE" /\ a.noise_type = "Normal"
            /\ a.fluid_condition \in {"Jernih", "Agak keruh"} THEN "IMPELLER_WEAR"
    ELSE IF PatternOf(a) = "OVER_RESISTANCE" THEN "SYSTEM_RESISTANCE_HIGH"
    ELSE IF PatternOf(a) = "EFFICIENCY_DROP" THEN "EFFICIENCY_DROP"
    ELSE IF PatternOf(a) = "NORMAL" THEN "NORMAL_OPERATION"
    ELSE "Tidak Terdiagnosa"

\* C21: the hydraulic diagnosis is the first of cavitation (crackling noise
\* with an NPSH margin below 0.5 m; High iff the margin is below 0.3 m),
\* impeller wear, system resistance, efficiency drop and normal operation that
\* applies, and the unclassified result with confidence 40 otherwise.
C21_HydraulicPriority ==
    HydraulicReturned
    => /\ ret.value.diagnosis = HydraulicPriority(args)
       /\ ret.value.diagnosis = "CAVITATION"
          => (ret.value.severity = "High"
              <=> 10 * ret.value.details.npsh_margin_m.n
                      < 3 * ret.value.details.npsh_margin_m.d)
       /\ ret.value.diagnosis = "Tidak Terdiagnosa" => ret.value.confidence = 40

\* the cavitation rule fires on measurements whose pattern has a rule of its own
C21_Witness ==
    /\ HydraulicReturned
    /\ CavitationFires(args)
    /\ PatternOf(args) \in {"OVER_RESISTANCE", "EFFICIENCY_DROP", "NORMAL"}
    /\ ret.value.diagnosis = "CAVITATION"

\* the reading of a bearing, 0 when the map has none
Reading(temp_dict, k) == IF k \in DOMAIN temp_dict THEN temp_dict[k] ELSE 0

\* the zone term of a reading against the cut points 70 / 80 / 90
ZoneTerm(temp, consistent) ==
    IF temp = 0 \/ temp < BEARING_TEMP_LIMITS.elevated_min THEN 0
    ELSE IF temp < BEARING_TEMP_LIMITS.warning_min THEN (IF consistent THEN 10 ELSE 0)
    ELSE IF temp < BEARING_TEMP_LIMITS.critical_min THEN (IF consistent THEN 15 ELSE -5)
    ELSE (IF consistent THEN 20 ELSE -10)

\* 5 when both readings exist and differ by more than 15 degC
DeltaTerm(temp_dict, de, nde) ==
    IF /\ Reading(temp_dict, de) # 0 /\ Reading(temp_dict, nde) # 0
       /\ Abs(Reading(temp_dict, de) - Reading(temp_dict, nde)) > 15
    THEN 5 ELSE 0

\* the unclamped total of the zone terms and the two localization terms
TemperatureTotal(temp_dict, consistent) ==
    ZoneTerm(Reading(temp_dict, "Pump_DE"), consistent)
    + ZoneTerm(Reading(temp_dict, "Pump_NDE"), consistent)
    + ZoneTerm(Reading(temp_dict, "Motor_DE"), consistent)
    + ZoneTerm(Reading(temp_dict, "Motor_NDE"), consistent)
    + DeltaTerm(temp_dict, "Pump_DE", "Pump_NDE")
    + DeltaTerm(temp_dict, "Motor_DE", "Motor_NDE")

FiresA == PatternA(args.mech_result, args.hyd_result, args.elec_result)
FiresB == PatternB(args.mech_result, args.hyd_result, args.elec_result)
FiresC == PatternC(args.mech_result, args.hyd_result, args.elec_result)

\* the temperature adjustment the correlator adds for the call's arguments
TemperatureShare ==
    IF args.temp_data = EmptyDict THEN 0
    ELSE calculate_temperature_confidence_adjustment(args.temp_data,
             args.mech_result.fault_type \notin {None, "normal"}).adjustment

\* C23: the pattern contribution to the confidence accumulator is
\* 15*[A holds] + 20*[B holds] + 10*[C holds], each pattern counted whether
\* or not another one holds, and when none of the three holds the integrated
\* diagnosis is the no-correlation default label whatever the temperature
\* map contributes.
C23_PatternContribution ==
    CorrelatorReturned =>
        /\ ret.value.confidence =
               IntegratedConfidence(args.mech_result.confidence,
                   args.hyd_result.confidence, args.elec_result.confidence,
                     (IF FiresA THEN 15 ELSE 0) + (IF FiresB THEN 20 ELSE 0)
                   + (IF FiresC THEN 10 ELSE 0) + TemperatureShare)
        /\ (~FiresA /\ ~FiresB /\ ~FiresC) =>
               ret.value.diagnosis = "Tidak Ada Korelasi Antar Domain Terdeteksi"

\* Patterns A and B hold together (35 on top of a mean of 40, no temperature
\* map): confidence 75
C23_Witness ==
    /\ CorrelatorReturned
    /\ FiresA /\ FiresB /\ ~FiresC
    /\ args.temp_data = EmptyDict
    /\ args.mech_result.confidence = 40 /\ args.hyd_result.confidence = 40
    /\ args.elec_result.confidence = 40
    /\ ret.value.confidence = 75

RunReturned == fn = "main" /\ ret.status = "returned"

\* some complete run from the fresh session ends with the integrated diagnosis
Triggerable(diagnosis) ==
    \E form \in RunForms, hyd \in RunHyd, elec \in RunElec :
        AfterElectrical(AfterHydraulic(AfterMechanical(form), hyd), elec)
            .integrated_result.diagnosis = diagnosis

\* C24 as stated: each of the three causal patterns is triggerable in a
\* complete analysis run, the mechanical verdict coming from the point
\* classifier and the system aggregation: from the fresh session some run
\* ends in "Cascading Failure: Cavitation Origin" (Pattern B), some run in
\* Pattern A's label and some run in Pattern C's.
C24_EachPatternTriggerable ==
    ret = Pending /\ fn = "main" =>
        /\ Triggerable("Electrical-Mechanical-Hydraulic Coupled Fault")
        /\ Triggerable("Cascading Failure: Cavitation Origin")
        /\ Triggerable("Internal Loss Investigation Required")

\* what holds instead: Patterns A and C are triggerable, and no mechanical
\* verdict carries the fault type Pattern B asks for
C24_OnlyAAndCTriggerable ==
    /\ ret = Pending /\ fn = "main" =>
           /\ Triggerable("Electrical-Mechanical-Hydraulic Coupled Fault")
           /\ Triggerable("Internal Loss Investigation Required")
    /\ RunReturned =>
           /\ session_state.mech_result.fault_type # "wear"
           /\ ret.value.diagnosis # "Cascading Failure: Cavitation Origin"

\* the fault types the mechanical verdict can carry
C24_MechanicalFaultTypes ==
    fn = "mechanical_analysis" /\ ret.status = "returned" =>
        ret.value.mech_system.fault_type \in {"normal", "low_freq", "high_freq", None}

\* some reading of the supplied map is above the Critical-zone floor
AboveCriticalFloor == \E k \in DOMAIN args.temp_data : args.temp_data[k] > 90

\* the highest of the three domain severities of the call
HighestDomainRank ==
    Max(SevRank(args.mech_result.severity),
        Max(SevRank(args.hyd_result.severity), SevRank(args.elec_result.severity)))

DesignMissing(a) ==
    a.design.rated_head_m = 0 /\ a.design.bep_efficiency = 0 /\ a.design.rated_flow_m3h = 0

\* C26 as stated: when the design reference is missing, so that every
\* deviation is short-circuited to 0, the hydraulic classifier returns an
\* inconclusive result and does not report NORMAL_OPERATION as a
\* confirmed-normal verdict.
C26_MissingDesignInconclusive ==
    HydraulicReturned /\ DesignMissing(args) =>
        /\ ret.value.diagnosis # "NORMAL_OPERATION"
        /\ ret.value.fault_type # "normal"

\* the mechanical verdict of the call is fault-negative
FaultNegative == args.mech_result.fault_type \in {None, "normal"}

\* the same correlator call without a bearing-temperature map
WithoutTemperature == Correlation([args EXCEPT !.temp_data = EmptyDict])

\* C27 as stated: when the mechanical verdict is fault-negative (fault_type
\* null or "normal") the temperature adjustment added to the integrated
\* confidence is never positive, for every bearing-temperature map: the
\* adjustment computed for an inconsistent diagnosis is at most 0, and the
\* integrated confidence is never above that of the same call without
\* temperatures.
C27_NoBonusWithoutFault ==
    /\ TemperatureReturned /\ ~args.diagnosis_consistent => ret.value.adjustment <= 0
    /\ CorrelatorReturned /\ FaultNegative =>
           ret.value.confidence <= WithoutTemperature.confidence

\* C28 as stated: whenever a supplied bearing temperature is classified
\* Critical by get_temperature_status, the integrated severity returned by
\* the correlator is High: zone classification and severity escalation agree
\* at the Critical boundary value.
C28_CriticalZoneIsHigh ==
    CorrelatorReturned =>
        ((\E k \in DOMAIN args.temp_data :
              /\ args.temp_data[k] # 0
              /\ get_temperature_status(args.temp_data[k]) = "Critical")
         => ret.value.severity = "High")

\* the correlation note each pattern appends, with the label it writes
PatternNotes ==
    {<<"Voltage unbalance -> torque pulsation -> hydraulic instability",
       "Electrical-Mechanical-Hydraulic Coupled Fault">>,
     <<"Cavitation -> impeller erosion -> unbalance -> current fluctuation",
       "Cascading Failure: Cavitation Origin">>,
     <<"High electrical input + low hydraulic output -> internal mechanical/hydraulic loss",
       "Internal Loss Investigation Required">>}

\* the patterns that fired in the run, read off the correlation notes
FiredIn(result) ==
    {p \in PatternNotes :
        \E i \in 1..Len(result.correlation_notes) : result.correlation_notes[i] = p[1]}

\* C29: in a complete run, whose three domain results come from the
\* application's own classifiers and mechanical aggregation, at most one of
\* Patterns A, B and C fires: the label a pattern wrote is the diagnosis
\* returned, and the integrated confidence carries a pattern bonus of at
\* most 20 (the runs' bearing temperatures add nothing).
C29_AtMostOnePattern ==
    RunReturned =>
        /\ Cardinality(FiredIn(ret.value)) <= 1
        /\ \A p \in FiredIn(ret.value) : ret.value.diagnosis = p[2]
        /\ FiredIn(ret.value) = {} => ret.value.diagnosis = NoCorrelationLabel
        /\ ret.value.confidence <=
               IntegratedConfidence(session_state.mech_result.confidence,
                                    session_state.hyd_result.confidence,
                                    session_state.elec_result.confidence, 20)

\* a run in which Pattern A alone fires: a voltage fault, a misaligned
\* machine and a head more than 5% below design
C29_Witness ==
    /\ RunReturned
    /\ session_state.elec_result.fault_type = "voltage"
    /\ session_state.mech_result.diagnosis = "MISALIGNMENT"
    /\ Cardinality(FiredIn(ret.value)) = 1
    /\ ret.value.diagnosis = "Electrical-Mechanical-Hydraulic Coupled Fault"

\* a run with a cavitating pump, unbalanced currents and a looseness or
\* misalignment verdict: everything Pattern B asks for except the mechanical
\* fault type, which is "low_freq"
C24_NearestRun ==
    /\ RunReturned
    /\ session_state.hyd_result.fault_type = "cavitation"
    /\ FracGt(session_state.elec_result.details.current_unbalance, 5)
    /\ session_state.mech_result.fault_type = "low_freq"
    /\ ret.value.diagnosis # "Cascading Failure: Cavitation Origin"

\* the bearing rules whose predicate holds for the bands
BearingRulesHolding(bands) ==
    {d \in BearingDiagnoses :
        \/ d = "BEARING_EARLY" /\ BearingEarlyRule(bands)
        \/ d = "BEARING_DEVELOPED" /\ BearingDevelopedRule(bands)
        \/ d = "BEARING_SEVERE" /\ BearingSevereRule(bands)}

\* C30: the three bearing predicates of the point classifier (Bearing-Early,
\* Bearing-Developed, Bearing-Severe) are pairwise mutually exclusive for all
\* band values, so the bearing diagnosis returned is that of the one rule
\* that holds, whatever the order of the three rules.
C30_BearingRulesExclusive ==
    PointReturned =>
        /\ Cardinality(BearingRulesHolding(args.bands)) <= 1
        /\ ret.value.diagnosis \in BearingDiagnoses =>
               BearingRulesHolding(args.bands) = {ret.value.diagnosis}

\* Band 2 at 0.45 g and Band 3 at 0.30 g with Band 1 at 0.20 g: only the
\* developed rule holds, although Band 2 is also above the severe rule's
\* Band 2 threshold
C30_Witness ==
    /\ PointReturned
    /\ args.bands = Bands(20, 45, 30)
    /\ BearingSevereRule_band2(args.bands)
    /\ BearingRulesHolding(args.bands) = {"BEARING_DEVELOPED"}
    /\ ret.value.diagnosis = "BEARING_DEVELOPED"

=============================================================================
